---------------------------- MODULE Spec2Model ----------------------------
(***************************************************************************)
(* Superpixel aggregation and similarity merging:                          *)
(*   - SLICHashTable::Hash, the single streaming pass that accumulates     *)
(*     per-superpixel statistics from a label map and a colour image;      *)
(*   - SuperDuperPixel, the incrementally averaged merge unit.             *)
(***************************************************************************)
EXTENDS Integers, Sequences, FiniteSets, TLC

(***************************************************************************)
(* Bounds of the model.                                                    *)
(***************************************************************************)
\* a label map has at most MaxPixels entries (rows * cols <= MaxPixels)
MaxPixels == 5
\* superpixel_count ranges over 1..MaxSP
MaxSP == 2
\* significand bits of the model's float
Precision == 5
\* a superpixel handed to SuperDuperPixel has 1..MaxCount pixels
MaxCount == 2
\* calls made on the SuperDuperPixel objects in one run
MaxCalls == 2

\* greatest number of rows and of columns of an image given to the LTriDP stages
MaxSide == 4

\* greatest number of image paths the indexing run finds
MaxImages == 3
\* greatest number of worker threads (std::thread::hardware_concurrency())
MaxThreads == 2

VARIABLES
    \* ---- SLICHashTable::Hash --------------------------------------------
    input_image,       \* argument: [rows, cols, seed] or [rows, cols, side,
                       \* colours]; pixel values by ImageAt
    labels,            \* argument: [rows, cols, at], at[<<row, col>>] = label
    superpixel_count,  \* argument
    pixel_counts,      \* argument pixel_count: the array of per-id pixel counts
    superpixels,       \* the calloc'ed HashKey array, indexed 0..superpixel_count-1
    row, col,          \* loop counters of Hash
    hpc,               \* position in Hash: "start", "loop", "done", "crash"
    oob,               \* out-of-bounds accesses performed so far
    hits,              \* the iterations at which the test of line 70 held
                       \* for a record of the array:
                       \* <<sp, row, col>>, in order
    \* ---- SuperDuperPixel ------------------------------------------------
    ndebug,            \* the build: TRUE when assert() is compiled out
    units,             \* the SuperDuperPixel objects, by handle
    members,           \* per object, what each entry of its member list
                       \* contributed: <<feature vector, pixel count>>
    last,              \* the last call: its arguments, receiver before, result
    upc,               \* "run", or how the process ended: "abort", "crash"
    calls,             \* number of calls made so far
    \* ---- duperization engine --------------------------------------------
    records,           \* argument: the feature records, <<vector, pixel count>>
    threshold,         \* argument: the merge threshold
    cap,               \* argument: the iteration cap
    eunits,            \* the MergeUnits, by id (absorbed ones keep their last value)
    live,              \* ids of the units not absorbed
    index,             \* the bucket index: key -> ids, in insertion order
    visited,           \* units visited in the current pass
    passes,            \* passes completed
    merged,            \* merges made in the current pass
    epc,               \* "wait", "start", "pass", "done", "ConvergenceLimitReached"
    \* ---- FeatureExtractor::extract, Preprocessor::enhance ----------------
    inputImage,        \* argument of both: a cv::Mat, [rows, cols, depth,
                       \* channels, pattern]; pixel values by PixelAt
    gamma,             \* argument of enhance, in halves (1 stands for 0.5)
    featureMap,        \* output argument of extract: a cv::Mat [rows, cols,
                       \* depth, channels, at], or "untouched"
    fy, fx,            \* loop counters y, x of extract
    fpc,               \* position in extract: "start", "loop", "returned"
    fret,              \* what extract returned
    reconstructed,     \* local of enhance
    outputImage,       \* output argument of enhance
    ppc,               \* position in enhance: "start", "validated",
                       \* "reconstructed", "corrected", "returned"
    pret,              \* what enhance returned
    ran,               \* the private stages enhance has run, in order
    \* ---- descriptor stage of the indexing main ---------------------------
    imagePaths,        \* the paths found, a sequence (index idx is idx + 1)
    numThreads,        \* number of worker threads
    nextIndex,         \* std::atomic<size_t> nextIndex
    results,           \* std::vector<ImageJobResult>, by index: [path, ok]
    wpc,               \* per worker: "unstarted", "fetch", "process",
                       \* "store", "exited"
    widx,              \* per worker: its local idx
    wjob,              \* per worker: what processImageJob returned
    mpc,               \* main: "spawn", "join", "joined", or "idle"
    started,           \* threads emplaced so far
    joined,            \* threads joined so far
    claims,            \* history: per index, the workers fetch_add gave it to
    writes             \* history: per index, the workers that assigned results[idx]

hvars == <<input_image, labels, superpixel_count, pixel_counts, superpixels,
           row, col, hpc, oob, hits>>

uvars == <<ndebug, units, members, last, upc, calls>>

evars == <<records, threshold, cap, eunits, live, index, visited, passes, merged, epc>>

lvars == <<inputImage, gamma, featureMap, fy, fx, fpc, fret,
           reconstructed, outputImage, ppc, pret, ran>>

wvars == <<imagePaths, numThreads, nextIndex, results, wpc, widx, wjob,
           mpc, started, joined, claims, writes>>

vars == <<hvars, uvars, evars, lvars, wvars>>

(***************************************************************************)
(* Inputs of Hash.                                                         *)
(***************************************************************************)
\* the (rows, cols) shapes of a matrix of at most MaxPixels entries
Shapes == {s \in (1..MaxPixels) \X (1..MaxPixels) : s[1] * s[2] <= MaxPixels}

Coords(rows, cols) == (0..(rows - 1)) \X (0..(cols - 1))

\* label values the segmentation may hand over: the dense range, and the two
\* nearest values outside it
LabelValues(n) == (-1)..n

\* seeds of the synthetic colour images
Seeds == {10, 200}

\* cv::Vec3b at (r, c) of the image with the given seed: three 8-bit channels
ImageAt(img, r, c) ==
    IF "colours" \in DOMAIN img
    THEN \* four quadrants of side img.side, each of one grey value
         LET v == img.colours[2 * (r \div img.side) + (c \div img.side)]
         IN  <<v, v, v>>
    ELSE << (img.seed + 16 * r + c) % 256,
            (3 * img.seed + r) % 256,
            (255 - img.seed + 7 * c) % 256 >>

\* what a read outside the image buffer may deliver
GarbagePixels == { <<0, 0, 0>>, <<255, 255, 255>> }

\* image shapes tried against a label map of shape (rows, cols): the same
\* shape, one column less, one row more
ImageShapes(rows, cols) ==
    { <<rows, cols>>, <<rows + 1, cols>> }
      \cup (IF cols > 1 THEN { <<rows, cols - 1>> } ELSE {})

\* calloc(superpixel_count, sizeof(HashKey)): every field zero
ZeroKey ==
    [ l_tot |-> 0, a_tot |-> 0, b_tot |-> 0,
      x_range |-> [first |-> 0, second |-> 0],
      y_range |-> [first |-> 0, second |-> 0],
      original_image |-> "null",
      pixel_count |-> 0 ]

(***************************************************************************)
(* SLICHashTable::Hash: the body of the inner loop.                        *)
(***************************************************************************)
\* the record after one pixel (r, c) of value lab_pixel has been added
AccumulateNoInit(curr, lab_pixel, r, c) ==
    [ curr EXCEPT
        !.l_tot = @ + lab_pixel[1],
        !.a_tot = @ + lab_pixel[2],
        !.b_tot = @ + lab_pixel[3],
        !.x_range = [ first  |-> IF @.first > c THEN c ELSE @.first,
                      second |-> IF @.second < c THEN c ELSE @.second ],
        !.y_range = [ first  |-> IF @.first > r THEN r ELSE @.first,
                      second |-> IF @.second < r THEN r ELSE @.second ],
        !.original_image = "input_image",
        !.pixel_count = @ + 1 ]

\* the bounding box with rows and columns exchanged
AccumulateTransposed(curr, lab_pixel, r, c) ==
    LET summed == [ curr EXCEPT !.l_tot = @ + lab_pixel[1],
                                !.a_tot = @ + lab_pixel[2],
                                !.b_tot = @ + lab_pixel[3] ]
        boxed ==
            IF summed.pixel_count = 0
            THEN [ summed EXCEPT
                     !.x_range = [first |-> r, second |-> r],
                     !.y_range = [first |-> c, second |-> c],
                     !.original_image = "input_image" ]
            ELSE [ summed EXCEPT
                     !.x_range = [ first  |-> IF @.first > r THEN r ELSE @.first,
                                   second |-> IF @.second < r THEN r ELSE @.second ],
                     !.y_range = [ first  |-> IF @.first > c THEN c ELSE @.first,
                                   second |-> IF @.second < c THEN c ELSE @.second ] ]
    IN  [ boxed EXCEPT !.pixel_count = @ + 1 ]

\* lines 52-67
Accumulate(curr, lab_pixel, r, c) ==
    LET summed == [ curr EXCEPT !.l_tot = @ + lab_pixel[1],
                                !.a_tot = @ + lab_pixel[2],
                                !.b_tot = @ + lab_pixel[3] ]
        boxed ==
            IF summed.pixel_count = 0
            THEN [ summed EXCEPT
                     !.x_range = [first |-> c, second |-> c],
                     !.y_range = [first |-> r, second |-> r],
                     !.original_image = "input_image" ]
            ELSE [ summed EXCEPT
                     !.x_range = [ first  |-> IF @.first > c THEN c ELSE @.first,
                                   second |-> IF @.second < c THEN c ELSE @.second ],
                     !.y_range = [ first  |-> IF @.first > r THEN r ELSE @.first,
                                   second |-> IF @.second < r THEN r ELSE @.second ] ]
    IN  [ boxed EXCEPT !.pixel_count = @ + 1 ]

\* HashKey curr = superpixels[sp]: a copy, whose updates are lost
StoreByValue(arr, sp, curr) == arr

\* HashKey &curr = superpixels[sp]: updates of curr are updates of the slot
StoreByReference(arr, sp, curr) == [arr EXCEPT ![sp] = curr]

\* the test of line 70 compares with the first entry of the array only
AllSubpixelsFoundFirstOnly(curr, counts, sp) == curr.pixel_count = counts[0]

\* line 70: curr.pixel_count == pixel_count[sp]
AllSubpixelsFound(curr, counts, sp) == curr.pixel_count = counts[sp]

\* the row loop advances, the column loop runs once per row
NextPosFirstColumnOnly(r, c) == <<r + 1, 0>>

\* the loop counters after one iteration of the inner loop
NextPos(r, c) == IF c + 1 < labels.cols THEN <<r, c + 1>> ELSE <<r + 1, 0>>

\* the per-id pixel counts as the caller computes them before the call, for
\* the ids of the array
CountPixels(lab, n) ==
    [sp \in 0..(n - 1) |-> Cardinality({p \in DOMAIN lab.at : lab.at[p] = sp})]

HashInit ==
    /\ \E n \in 1..MaxSP, s \in Shapes :
         /\ superpixel_count = n
         /\ \E at \in [Coords(s[1], s[2]) -> LabelValues(n)] :
              labels = [rows |-> s[1], cols |-> s[2], at |-> at]
         /\ \E i \in ImageShapes(s[1], s[2]), seed \in Seeds :
              input_image = [rows |-> i[1], cols |-> i[2], seed |-> seed]
    /\ pixel_counts = CountPixels(labels, superpixel_count)
    /\ superpixels = <<>>
    /\ row = 0
    /\ col = 0
    /\ hpc = "start"
    /\ oob = {}
    /\ hits = << >>

\* the state of Hash while other components run
HashIdle ==
    /\ input_image = [rows |-> 1, cols |-> 1, seed |-> 10]
    /\ labels = [rows |-> 1, cols |-> 1, at |-> [p \in Coords(1, 1) |-> 0]]
    /\ superpixel_count = 1
    /\ pixel_counts = CountPixels(labels, superpixel_count)
    /\ superpixels = <<>>
    /\ row = 0
    /\ col = 0
    /\ hpc = "idle"
    /\ oob = {}
    /\ hits = << >>

\* Hash is entered: the array is allocated and the loops start
HashCall ==
    /\ hpc = "start"
    /\ superpixels' = [sp \in 0..(superpixel_count - 1) |-> ZeroKey]
    /\ row' = 0
    /\ col' = 0
    /\ hpc' = "loop"
    /\ UNCHANGED <<input_image, labels, superpixel_count, pixel_counts, oob, hits>>
    /\ UNCHANGED <<uvars, evars, lvars, wvars>>

\* one iteration of the inner loop, at (row, col)
HashStep ==
    /\ hpc = "loop"
    /\ row < labels.rows
    /\ LET inImage == row < input_image.rows /\ col < input_image.cols
           sp == labels.at[<<row, col>>]
           inArray == sp \in 0..(superpixel_count - 1)
           here == (IF inImage THEN {} ELSE {"image"})
                     \cup (IF inArray THEN {} ELSE {"slot"})
       IN  \/ \* line 49: the read outside the image buffer ends the process
              /\ ~inImage
              /\ hpc' = "crash"
              /\ oob' = oob \cup {"image"}
              /\ UNCHANGED <<superpixels, row, col, hits>>
           \/ \* lines 51-67: the access outside the array ends the process
              /\ ~inArray
              /\ hpc' = "crash"
              /\ oob' = oob \cup here
              /\ UNCHANGED <<superpixels, row, col, hits>>
           \/ \* or the iteration goes through: a read outside the image
              \* delivers whatever lies there, a write outside the array
              \* lands in foreign memory; the test of line 70 has an empty
              \* body, and hits records it for the records of the array
              \E lab_pixel \in (IF inImage
                                THEN {ImageAt(input_image, row, col)}
                                ELSE GarbagePixels) :
              \E hit \in {inArray /\ AllSubpixelsFound(
                                         Accumulate(superpixels[sp], lab_pixel, row, col),
                                         pixel_counts, sp)} :
                /\ superpixels' =
                     IF inArray
                     THEN StoreByReference(superpixels, sp,
                             Accumulate(superpixels[sp], lab_pixel, row, col))
                     ELSE superpixels
                /\ hits' = IF hit THEN Append(hits, <<sp, row, col>>) ELSE hits
                /\ oob' = oob \cup here
                /\ row' = NextPos(row, col)[1]
                /\ col' = NextPos(row, col)[2]
                /\ hpc' = IF NextPos(row, col)[1] < labels.rows THEN "loop" ELSE "done"
    /\ UNCHANGED <<input_image, labels, superpixel_count, pixel_counts>>
    /\ UNCHANGED <<uvars, evars, lvars, wvars>>

HashNext == HashCall \/ HashStep

(***************************************************************************)
(* float: binary floating point with a Precision-bit significand, rounded  *)
(* to nearest, ties to even.  A value is held as an integer count of       *)
(* Ulp0 = 2^-FracBits; the exponent range is wide enough that no value of  *)
(* the model overflows, and below 2^(Precision-FracBits) the spacing is    *)
(* the fixed Ulp0 (gradual underflow).                                     *)
(***************************************************************************)
\* 2^FracBits values to the unit: Ulp0 = 1 / One
FracBits == Precision + 3

\* 1.0f
One == 2 ^ FracBits

\* the spacing of the floats around q >= 0: 1 below 2^Precision, doubling
\* with every further bit
RECURSIVE Spacing(_)
Spacing(q) == IF q < 2 ^ Precision THEN 1 ELSE 2 * Spacing(q \div 2)

\* f + rem / m rounded to an integer, ties to even
NearestEven(f, rem, m) ==
    IF 2 * rem > m \/ (2 * rem = m /\ f % 2 = 1) THEN f + 1 ELSE f

RoundToSpacing(num, m, step) == NearestEven(num \div m, num % m, m) * step

\* the float nearest to num / den, for num >= 0 and den > 0
RoundRatio(num, den) ==
    LET step == Spacing(num \div den)
    IN  RoundToSpacing(num, den * step, step)

\* the float nearest to n / d, for d > 0
RoundSigned(n, d) ==
    IF n < 0 THEN 0 - RoundRatio(0 - n, d) ELSE RoundRatio(n, d)

\* Body applied to the value of e: e is computed once, as the operand of a
\* machine operation or a local variable of the code is
ByValue(e, Body(_)) == CHOOSE r \in {Body(x) : x \in {e}} : TRUE

\* the float nearest to num / den, for den > 0
Round(num, den) ==
    ByValue(num, LAMBDA n : ByValue(den, LAMBDA d : RoundSigned(n, d)))

\* int -> float
IntToFloat(n) == Round(n * One, 1)

FAdd(a, b) == Round(a + b, 1)
FSub(a, b) == Round(a - b, 1)
\* a product or quotient by a whole number is taken with the One cancelled,
\* which keeps the model's integers small
FMul(a, b) ==
    IF b % One = 0 THEN Round(a * (b \div One), 1)
    ELSE IF a % One = 0 THEN Round((a \div One) * b, 1)
    ELSE Round(a * b, One)
FDiv(a, b) ==
    IF b % One = 0 THEN Round(a, b \div One) ELSE Round(a * One, b)

\* int abs(int) applied to a float: the argument is truncated towards zero
IntAbs(a) == ((IF a < 0 THEN 0 - a ELSE a) \div One) * One

\* no absolute value at all
NoAbs(a) == a

\* abs(diff), line 21: the float overload
FAbs(a) == IF a < 0 THEN 0 - a ELSE a

(***************************************************************************)
(* SuperDuperPixel                                                         *)
(***************************************************************************)
\* SuperDuperPixel::SuperDuperPixel
SuperDuperPixel(superpixel, average_or_histogram, pixel_count) ==
    [ superpixels |-> <<superpixel>>,
      average_or_histogram |-> average_or_histogram,
      pixel_count |-> pixel_count ]

\* average_or_histogram[color_channel] of the argument: past its end the read
\* delivers whatever lies there
ReadChannel(v, color_channel, garbage) ==
    IF color_channel <= Len(v) THEN v[color_channel] ELSE garbage

\* SuperDuperPixel::distance_from, lines 14-27: dist after the loop has run
\* over the first `channels` channels
RECURSIVE distance_from(_, _, _, _)
distance_from(this, v, garbage, channels) ==
    IF channels = 0 THEN 0
    ELSE LET diff == FSub(this.average_or_histogram[channels],
                          ReadChannel(v, channels, garbage))
         IN  FAdd(distance_from(this, v, garbage, channels - 1), FAbs(diff))

\* the average weighted by the pixel count after the update
AverageStale(this_avg, this_count, other_avg, other_count, garbage) ==
    [ color_channel \in 1..Len(this_avg) |->
        LET new_pixel_count == this_count + other_count
            this_sum  == FMul(this_avg[color_channel], IntToFloat(new_pixel_count))
            other_sum == FMul(ReadChannel(other_avg, color_channel, garbage),
                              IntToFloat(other_count))
        IN  FDiv(FAdd(this_sum, other_sum), IntToFloat(new_pixel_count)) ]

\* the unweighted mean of the two vectors
AverageUnweighted(this_avg, this_count, other_avg, other_count, garbage) ==
    [ color_channel \in 1..Len(this_avg) |->
        FDiv(FAdd(this_avg[color_channel],
                  ReadChannel(other_avg, color_channel, garbage)),
             IntToFloat(2)) ]

\* lines 34-40 and 50-56: the loop that re-averages every channel
Average(this_avg, this_count, other_avg, other_count, garbage) ==
    [ color_channel \in 1..Len(this_avg) |->
        LET new_pixel_count == this_count + other_count
            this_sum  == FMul(this_avg[color_channel], IntToFloat(this_count))
            other_sum == FMul(ReadChannel(other_avg, color_channel, garbage),
                              IntToFloat(other_count))
        IN  FDiv(FAdd(this_sum, other_sum), IntToFloat(new_pixel_count)) ]

\* an add_superpixel that puts the new id in front of the member list
add_superpixel_in_front(this, superpixel, average_or_histogram, pixel_count, garbage) ==
    [ superpixels |-> <<superpixel>> \o this.superpixels,
      average_or_histogram |->
          Average(this.average_or_histogram, this.pixel_count,
                  average_or_histogram, pixel_count, garbage),
      pixel_count |-> this.pixel_count + pixel_count ]

\* SuperDuperPixel::add_superpixel, lines 33-41
add_superpixel(this, superpixel, average_or_histogram, pixel_count, garbage) ==
    [ superpixels |-> Append(this.superpixels, superpixel),
      average_or_histogram |->
          Average(this.average_or_histogram, this.pixel_count,
                  average_or_histogram, pixel_count, garbage),
      pixel_count |-> this.pixel_count + pixel_count ]

\* a merge that re-averages but forgets the absorbed unit's members
plus_eq_forgets_members(this, other, garbage) ==
    [ superpixels |-> this.superpixels,
      average_or_histogram |->
          Average(this.average_or_histogram, this.pixel_count,
                  other.average_or_histogram, other.pixel_count, garbage),
      pixel_count |-> this.pixel_count + other.pixel_count ]

\* a merge that takes over the members but keeps its own pixel count
plus_eq_keeps_count(this, other, garbage) ==
    [ superpixels |-> this.superpixels \o other.superpixels,
      average_or_histogram |->
          Average(this.average_or_histogram, this.pixel_count,
                  other.average_or_histogram, other.pixel_count, garbage),
      pixel_count |-> this.pixel_count ]

\* SuperDuperPixel::operator+=, lines 49-57
operator_plus_eq(this, other, garbage) ==
    [ superpixels |-> this.superpixels \o other.superpixels,
      average_or_histogram |->
          Average(this.average_or_histogram, this.pixel_count,
                  other.average_or_histogram, other.pixel_count, garbage),
      pixel_count |-> this.pixel_count + other.pixel_count ]

\* SuperDuperPixel::get_superpixels
get_superpixels(this) == this.superpixels

(***************************************************************************)
(* Callers of SuperDuperPixel: three objects A, B, C, each constructed     *)
(* around one superpixel, then any calls of add_superpixel, operator+= and *)
(* distance_from among them.                                               *)
(***************************************************************************)
Handles == {"A", "B", "C"}

\* the superpixel each object is constructed around
IdOf(h) == CASE h = "A" -> 0 [] h = "B" -> 1 [] h = "C" -> 2

\* feature vectors handed to the constructor: one channel, with values one
\* apart, or two channels, with values far apart
FeatureVectors ==
    { <<IntToFloat(10)>>, <<IntToFloat(11)>>,
      <<IntToFloat(10), IntToFloat(200)>>, <<IntToFloat(200), IntToFloat(16)>> }

\* the arguments of the constructor: a vector and a pixel count, 1 or MaxCount
ConstructorArgs ==
    { a \in FeatureVectors \X {1, MaxCount} :
        Len(a[1]) = 1 => (a[2] = 1 <=> a[1][1] = IntToFloat(10)) }

\* a number that tells any two constructor arguments apart
ArgsKey(args) ==
    LET v == args[1]
    IN  ((Len(v) * 256 + v[1] \div One) * 256 + v[Len(v)] \div One) * 256 + args[2]

\* what a read past the end of a vector may deliver
GarbageFloats == { IntToFloat(0), IntToFloat(200) }

NoCall == [op |-> "none"]

SDPInit ==
    /\ ndebug \in BOOLEAN
    \* the three objects are interchangeable: the arguments of A, B, C are
    \* drawn in non-decreasing order
    /\ \E args \in [Handles -> ConstructorArgs] :
         /\ ArgsKey(args["A"]) <= ArgsKey(args["B"])
         /\ ArgsKey(args["B"]) <= ArgsKey(args["C"])
         /\ units = [h \in Handles |->
                       SuperDuperPixel(IdOf(h), args[h][1], args[h][2])]
         /\ members = [h \in Handles |-> << args[h] >>]
    /\ last = NoCall
    /\ upc = "run"
    /\ calls = 0

\* the state of the objects while other components run
SDPIdle ==
    /\ ndebug = TRUE
    /\ units = <<>>
    /\ members = <<>>
    /\ last = NoCall
    /\ upc = "idle"
    /\ calls = 0

\* assert(this->average_or_histogram.size() == other.size()) fails
AssertFails(this, v) ==
    ~ndebug /\ Len(this.average_or_histogram) # Len(v)

\* the loop over this unit's channels reads v past its end
ReadsPastEnd(this, v) == Len(this.average_or_histogram) > Len(v)

\* the values a read of v may deliver beyond the ones v holds
Garbage(this, v) ==
    IF ReadsPastEnd(this, v) THEN GarbageFloats ELSE {IntToFloat(0)}

\* a call whose assertion fails: the process is aborted
Aborts(call) ==
    /\ upc' = "abort"
    /\ last' = call
    /\ calls' = calls + 1
    /\ UNCHANGED <<ndebug, units, members>>

\* a call whose read past the end of a vector faults
Crashes(call) ==
    /\ upc' = "crash"
    /\ last' = call
    /\ calls' = calls + 1
    /\ UNCHANGED <<ndebug, units, members>>

\* units[i].add_superpixel(id, v, n) with the record object j was built from
AddSuperpixel(i, j) ==
    /\ upc = "run" /\ calls < MaxCalls /\ i # j
    /\ LET this == units[i]
           v == members[j][1][1]
           n == members[j][1][2]
           call == [op |-> "add_superpixel", this |-> i, other |-> j]
       IN  \/ AssertFails(this, v) /\ Aborts(call)
           \/ ndebug /\ ReadsPastEnd(this, v) /\ Crashes(call)
           \/ /\ ~AssertFails(this, v)
              /\ \E garbage \in Garbage(this, v) :
                   units' = [units EXCEPT
                               ![i] = add_superpixel(this, IdOf(j), v, n, garbage)]
              /\ members' = [members EXCEPT ![i] = Append(@, <<v, n>>)]
              /\ last' = call
              /\ calls' = calls + 1
              /\ UNCHANGED <<ndebug, upc>>
    /\ UNCHANGED <<hvars, evars, lvars, wvars>>

\* units[i] += &units[j]
PlusEq(i, j) ==
    /\ upc = "run" /\ calls < MaxCalls /\ i # j
    /\ LET this == units[i]
           other == units[j]
           v == other.average_or_histogram
           call == [op |-> "operator+=", this |-> i, other |-> j]
       IN  \/ AssertFails(this, v) /\ Aborts(call)
           \/ ndebug /\ ReadsPastEnd(this, v) /\ Crashes(call)
           \/ /\ ~AssertFails(this, v)
              /\ \E garbage \in Garbage(this, v) :
                   units' = [units EXCEPT
                               ![i] = operator_plus_eq(this, other, garbage)]
              /\ members' = [members EXCEPT ![i] = @ \o members[j]]
              /\ last' = call
              /\ calls' = calls + 1
              /\ UNCHANGED <<ndebug, upc>>
    /\ UNCHANGED <<hvars, evars, lvars, wvars>>

\* units[i].distance_from(units[j].average_or_histogram)
DistanceFrom(i, j) ==
    /\ upc = "run" /\ calls < MaxCalls /\ i # j
    /\ LET this == units[i]
           v == units[j].average_or_histogram
           call == [op |-> "distance_from", this |-> i, other |-> j]
       IN  \/ AssertFails(this, v) /\ Aborts(call)
           \/ ndebug /\ ReadsPastEnd(this, v) /\ Crashes(call)
           \/ /\ ~AssertFails(this, v)
              /\ \E garbage \in Garbage(this, v) :
                   last' = [op |-> "distance_from", this |-> i, other |-> j,
                            result |-> distance_from(this, v, garbage,
                                          Len(this.average_or_histogram))]
              /\ calls' = calls + 1
              /\ UNCHANGED <<ndebug, units, members, upc>>
    /\ UNCHANGED <<hvars, evars, lvars, wvars>>

SDPNext ==
    \E i, j \in Handles : AddSuperpixel(i, j) \/ PlusEq(i, j) \/ DistanceFrom(i, j)

(***************************************************************************)
(* The duperization engine.  Its code (sdp_slic.hpp, duperizeWithAverage,  *)
(* called by the demo's main) is not among the sources; it is modelled     *)
(* from the design's sections 4.2 and 4.4, on top of SLICHashTable's       *)
(* bucket constants and SuperDuperPixel's distance_from and operator+=.    *)
(***************************************************************************)
\* SLICHashTable's bucket constants
lab_buckets == 16
lab_bucket_size == 256 \div lab_buckets
max_img_w == 3840
max_img_h == 2160
x_buckets == 10
y_buckets == 10
x_bucket_size == max_img_w \div x_buckets
y_bucket_size == max_img_h \div y_buckets

\* floor(value / bucket_size), as it comes
BucketUnclamped(value, bucket_size, bucket_count) == (value \div One) \div bucket_size

\* floor(value / bucket_size), clamped to 0 .. bucket_count - 1
Bucket(value, bucket_size, bucket_count) ==
    LET b == (value \div One) \div bucket_size
    IN  IF b < 0 THEN 0 ELSE IF b >= bucket_count THEN bucket_count - 1 ELSE b

\* (l_bucket, a_bucket, b_bucket, x_bucket, y_bucket) of a feature vector
BucketKey(v) ==
    << Bucket(v[1], lab_bucket_size, lab_buckets),
       Bucket(v[2], lab_bucket_size, lab_buckets),
       Bucket(v[3], lab_bucket_size, lab_buckets),
       Bucket(v[4], x_bucket_size, x_buckets),
       Bucket(v[5], y_bucket_size, y_buckets) >>

\* bucket index: insert(unit_id, feature_vector)
insert(idx, unit_id, v) ==
    LET key == BucketKey(v)
    IN  IF key \in DOMAIN idx
        THEN [idx EXCEPT ![key] = Append(@, unit_id)]
        ELSE [k \in DOMAIN idx \cup {key} |->
                 IF k = key THEN <<unit_id>> ELSE idx[k]]

\* bucket index: remove(unit_id)
remove(idx, unit_id) ==
    [k \in DOMAIN idx |-> SelectSeq(idx[k], LAMBDA id : id # unit_id)]

\* a query that finds nothing
candidates_none(idx, v) == << >>

\* a query that probes every bucket: the ids of the whole index, ascending
candidates_anywhere(idx, v) ==
    LET all == UNION {{idx[key][k] : k \in DOMAIN idx[key]} : key \in DOMAIN idx}
    IN  CHOOSE f \in [1 .. Cardinality(all) -> all] :
            \A i, j \in 1 .. Cardinality(all) : i < j => f[i] < f[j]

\* bucket index: candidates_near(feature_vector)
candidates_near(idx, v) ==
    IF BucketKey(v) \in DOMAIN idx THEN idx[BucketKey(v)] ELSE <<>>

RECURSIVE Ascending(_)
\* the ids of a set in ascending order
Ascending(S) ==
    IF S = {} THEN <<>>
    ELSE LET least == CHOOSE x \in S : \A y \in S : x <= y
         IN  <<least>> \o Ascending(S \ {least})

\* the feature records the engine is given: colour means and a centre; the
\* first two lie just below the end of the first y-bucket, the last one at
\* and beyond the assumed maxima
EngineRecords ==
    { << <<IntToFloat(10), IntToFloat(10), IntToFloat(10),
           IntToFloat(1), IntToFloat(208)>>, 1 >>,
      << <<IntToFloat(12), IntToFloat(10), IntToFloat(10),
           IntToFloat(1), IntToFloat(208)>>, MaxCount >>,
      << <<IntToFloat(17), IntToFloat(10), IntToFloat(10),
           IntToFloat(1), IntToFloat(1)>>, 1 >>,
      << <<IntToFloat(256), IntToFloat(200), IntToFloat(0),
           IntToFloat(max_img_w), IntToFloat(max_img_h + 400)>>, MaxCount >> }

\* merge_threshold values: negative, zero, small, large
Thresholds ==
    { IntToFloat(0 - 5), IntToFloat(0), IntToFloat(2), IntToFloat(5),
      IntToFloat(500) }

Ids == 0 .. (Len(records) - 1)

\* one unit per input record, each in the bucket of its vector
RECURSIVE InitialIndex(_, _)
InitialIndex(recs, n) ==
    IF n = 0 THEN << >>
    ELSE insert(InitialIndex(recs, n - 1), n - 1, recs[n][1])

EngineInit ==
    /\ \E n \in 1 .. (MaxSP + 1) :
         records \in [1..n -> EngineRecords]
    /\ threshold \in Thresholds
    /\ cap \in 1 .. MaxCalls
    /\ eunits = << >>
    /\ live = {}
    /\ index = << >>
    /\ visited = {}
    /\ passes = 0
    /\ merged = 0
    /\ epc = "start"

EngineIdle ==
    /\ records = << >>
    /\ threshold = 0
    /\ cap = 0
    /\ eunits = << >>
    /\ live = {}
    /\ index = << >>
    /\ visited = {}
    /\ passes = 0
    /\ merged = 0
    /\ epc = "idle"

\* engine start: one MergeUnit per superpixel, inserted in the index
EngineStart ==
    /\ epc = "start"
    /\ eunits' = [id \in Ids |->
                     SuperDuperPixel(id, records[id + 1][1], records[id + 1][2])]
    /\ live' = Ids
    /\ index' = InitialIndex(records, Len(records))
    /\ epc' = "pass"
    /\ UNCHANGED <<records, threshold, cap, visited, passes, merged>>
    /\ UNCHANGED <<hvars, uvars, lvars, wvars>>

\* a merge that leaves the absorbed unit live
MergeKeepsAbsorbed(s, self, cands, k) ==
    IF cands = << >> THEN s
    ELSE [s EXCEPT !.merged = s.merged + 1]

\* the absorbed unit leaves the index; the survivor stays under the key it had
AbsorbInPlace(s, self, c, survivor) ==
    [eunits |-> [s.eunits EXCEPT ![self] = survivor],
     live   |-> s.live \ {c},
     index  |-> remove(s.index, c),
     merged |-> s.merged + 1]

\* the absorbed unit leaves the live units but stays in its bucket
AbsorbLeavesInIndex(s, self, c, survivor) ==
    [eunits |-> [s.eunits EXCEPT ![self] = survivor],
     live   |-> s.live \ {c},
     index  |-> insert(remove(s.index, self),
                       self, survivor.average_or_histogram),
     merged |-> s.merged + 1]

\* the querying unit self has absorbed candidate c: c leaves the live units
\* and the index, and the survivor is re-inserted under its new key
Absorb(s, self, c, survivor) ==
    [eunits |-> [s.eunits EXCEPT ![self] = survivor],
     live   |-> s.live \ {c},
     index  |-> insert(remove(remove(s.index, c), self),
                       self, survivor.average_or_histogram),
     merged |-> s.merged + 1]

\* the querying unit self looks at candidate c, and absorbs it if its
\* distance is below the threshold
ConsiderCandidate(s, self, c) ==
    LET this == s.eunits[self]
        dist == distance_from(this, s.eunits[c].average_or_histogram,
                              IntToFloat(0), Len(this.average_or_histogram))
    IN  IF dist < threshold
        THEN ByValue(operator_plus_eq(this, s.eunits[c], IntToFloat(0)),
                     LAMBDA survivor : Absorb(s, self, c, survivor))
        ELSE s

RECURSIVE MergeCandidates(_, _, _, _)
\* the querying unit self looks at the candidates from the k-th on, in the
\* order of cands; each one is looked at in the state the previous one left
MergeCandidates(s, self, cands, k) ==
    IF k > Len(cands) THEN s
    ELSE ByValue(ConsiderCandidate(s, self, cands[k]),
                 LAMBDA t : MergeCandidates(t, self, cands, k + 1))

\* the unit a step of the pass visits: the unvisited one of least id
Current == CHOOSE u \in live \ visited : \A w \in live \ visited : u <= w

\* a candidate list that keeps the querying unit
CandidatesWithSelf ==
    LET found == candidates_near(index, eunits[Current].average_or_histogram)
    IN  Ascending({found[k] : k \in DOMAIN found})

\* the candidates of the visited unit: its bucket without itself, ascending
Candidates ==
    LET found == candidates_near(index, eunits[Current].average_or_histogram)
    IN  Ascending({found[k] : k \in DOMAIN found} \ {Current})

\* the candidates of the visited unit in every order
AnyCandidateOrder ==
    LET S == {Candidates[k] : k \in DOMAIN Candidates}
    IN  {f \in [1 .. Cardinality(S) -> S] :
            \A i, j \in 1 .. Cardinality(S) : i # j => f[i] # f[j]}

\* the orders in which a visit may process its candidates: ascending id
CandidateOrders == {Candidates}

\* units, live set, index and merge count after a visit that processes the
\* candidates in the order cands; the candidate list is the one the query
\* returned, whatever the merges do to the bucket
VisitedIn(cands) ==
    ByValue(Current, LAMBDA self :
        MergeCandidates([eunits |-> eunits, live |-> live,
                         index |-> index, merged |-> merged],
                        self, cands, 1))

\* the outcome of the visit in ascending order
Visited == VisitedIn(Candidates)

\* one step of a pass: the unvisited unit of least id queries its bucket
EngineVisit ==
    /\ epc = "pass"
    /\ live \ visited # {}
    /\ \E cands \in CandidateOrders : \E s \in {VisitedIn(cands)} :
         /\ eunits' = s.eunits
         /\ live' = s.live
         /\ index' = s.index
         /\ merged' = s.merged
         /\ visited' = (visited \cup {Current}) \cap s.live
    /\ UNCHANGED <<records, threshold, cap, passes, epc>>
    /\ UNCHANGED <<hvars, uvars, lvars, wvars>>

\* a cap test that lets one pass too many through
CapReachedLate == passes >= cap

\* the pass that ends is the last one the caller's iteration cap allows
CapReached == passes + 1 >= cap

\* end of a pass: fixed point, iteration cap, or another pass
EnginePassEnd ==
    /\ epc = "pass"
    /\ live \ visited = {}
    /\ passes' = passes + 1
    /\ IF merged = 0
       THEN epc' = "done" /\ UNCHANGED <<visited, merged>>
       ELSE IF CapReached
            THEN epc' = "ConvergenceLimitReached" /\ UNCHANGED <<visited, merged>>
            ELSE epc' = "pass" /\ visited' = {} /\ merged' = 0
    /\ UNCHANGED <<records, threshold, cap, eunits, live, index>>
    /\ UNCHANGED <<hvars, uvars, lvars, wvars>>

EngineNext == EngineStart \/ EngineVisit \/ EnginePassEnd


\* least and greatest element of a set of integers
Minimum(S) == CHOOSE m \in S : \A x \in S : m <= x
Maximum(S) == CHOOSE m \in S : \A x \in S : m >= x

(***************************************************************************)
(* The pipeline: the accumulation pass, the feature records made of its    *)
(* HashKeys (mean colour and centre of the bounding box, design section 3),*)
(* then the engine.                                                        *)
(***************************************************************************)
\* side of a quadrant of the test images: 2x2 and 4x4 images
QuadrantSides == {1, 2}

\* label maps of the pipeline's runs: four quadrants with ids 0..3 (top left,
\* top right, bottom left, bottom right), or a single id on a square or on a
\* wide image
LabelMaps(side) ==
    { [rows |-> 2 * side, cols |-> 2 * side,
       at |-> [p \in Coords(2 * side, 2 * side) |->
                 2 * (p[1] \div side) + (p[2] \div side)]],
      [rows |-> 2 * side, cols |-> 2 * side,
       at |-> [p \in Coords(2 * side, 2 * side) |-> 0]],
      [rows |-> side, cols |-> 2 * side,
       at |-> [p \in Coords(side, 2 * side) |-> 0]] }

\* number of ids a label map uses
IdsUsed(map) == 1 + Maximum({map.at[p] : p \in DOMAIN map.at})

PipelineInit ==
    /\ \E side \in QuadrantSides :
         /\ labels \in LabelMaps(side)
         /\ \E i \in ImageShapes(labels.rows, labels.cols), colours \in [0..3 -> Seeds] :
              input_image = [rows |-> i[1], cols |-> i[2], side |-> side,
                             colours |-> colours]
    /\ superpixel_count \in {IdsUsed(labels), Maximum({1, IdsUsed(labels) - 1})}
    /\ pixel_counts = CountPixels(labels, superpixel_count)
    /\ superpixels = <<>>
    /\ row = 0
    /\ col = 0
    /\ hpc = "start"
    /\ oob = {}
    /\ hits = << >>
    /\ records = << >>
    /\ threshold = 0
    /\ cap = 0
    /\ eunits = << >>
    /\ live = {}
    /\ index = << >>
    /\ visited = {}
    /\ passes = 0
    /\ merged = 0
    /\ epc = "wait"

\* the feature record of a HashKey: mean colour per channel, centre of the
\* bounding box, pixel count
FeatureRecord(key) ==
    << << FDiv(IntToFloat(key.l_tot), IntToFloat(key.pixel_count)),
          FDiv(IntToFloat(key.a_tot), IntToFloat(key.pixel_count)),
          FDiv(IntToFloat(key.b_tot), IntToFloat(key.pixel_count)),
          FDiv(IntToFloat(key.x_range.first + key.x_range.second), IntToFloat(2)),
          FDiv(IntToFloat(key.y_range.first + key.y_range.second), IntToFloat(2)) >>,
       key.pixel_count >>

\* the pass is over: its records, a threshold and an iteration cap go to the
\* engine
Finalize ==
    /\ hpc = "done"
    /\ epc = "wait"
    /\ \A sp \in 0..(superpixel_count - 1) : superpixels[sp].pixel_count > 0
    /\ records' = [k \in 1..superpixel_count |-> FeatureRecord(superpixels[k - 1])]
    /\ threshold' \in Thresholds
    /\ cap' \in 1 .. MaxCalls
    /\ epc' = "start"
    /\ UNCHANGED <<eunits, live, index, visited, passes, merged>>
    /\ UNCHANGED <<hvars, uvars, lvars, wvars>>

PipelineNext ==
    HashCall \/ HashStep \/ Finalize \/ EngineStart \/ EngineVisit \/ EnginePassEnd

(***************************************************************************)
(* The LTriDP stages: FeatureExtractor::extract and Preprocessor::enhance, *)
(* each called once on the same input image.                               *)
(***************************************************************************)
\* rows and columns of the inputs: none, too few for a 3x3 neighbourhood, enough
Sides == {0, 2} \cup (3 .. MaxSide)

Depths == {"CV_8U", "CV_16U"}

ChannelCounts == {1, 2, 3}

\* contents of the inputs, as the tests build them: cv::Scalar(128), a
\* horizontal gradient, the checkerboard of debug_ltridp.cpp
Patterns == {"uniform", "gradient", "checkerboard"}

\* gamma in halves (-0.5, 0, 0.5, 1, 2), and NaN
Gammas ==
    {[nan |-> FALSE, halves |-> h] : h \in {0 - 1, 0, 1, 2, 4}}
        \cup {[nan |-> TRUE, halves |-> 0]}

\* what the caller's output cv::Mat holds before the call
PriorMat ==
    [rows |-> 1, cols |-> 1, depth |-> "CV_8U", channels |-> 1,
     at |-> [p \in Coords(1, 1) |-> 77]]

\* a cv::Mat declared and not yet assigned
EmptyMat ==
    [rows |-> 0, cols |-> 0, depth |-> "CV_8U", channels |-> 1,
     at |-> [p \in Coords(0, 0) |-> 0]]

\* cv::Mat::empty()
empty(img) == img.rows = 0 \/ img.cols = 0

\* channel k of the input's pixel (r, c)
PixelAt(img, r, c, k) ==
    LET v == CASE img.pattern = "uniform" -> 128
               [] img.pattern = "gradient" -> (c * 255) \div (img.cols - 1)
               [] img.pattern = "checkerboard" -> (((r \div 2) + (c \div 2)) % 2) * 255
    IN  (v + 50 * k) % 256

\* cv::cvtColor(..., COLOR_BGR2GRAY) on 8-bit pixels
BGR2GRAY(b, g, r) == (1868 * b + 9617 * g + 4899 * r + 8192) \div 16384

\* floatImage.at<float>(y, x): the grey value of a 3-channel input; otherwise
\* the x-th float of row y of the converted clone, whatever its channel count
FloatAt(img, y, x) ==
    IF img.channels = 3
    THEN BGR2GRAY(PixelAt(img, y, x, 0), PixelAt(img, y, x, 1), PixelAt(img, y, x, 2))
    ELSE PixelAt(img, y, x \div img.channels, x % img.channels)

\* FeatureExtractor::extractNeighborhood: g1..g8 clockwise from the east, then gc
extractNeighborhood(image, x, y) ==
    << FloatAt(image, y, x + 1),
       FloatAt(image, y + 1, x + 1),
       FloatAt(image, y + 1, x),
       FloatAt(image, y + 1, x - 1),
       FloatAt(image, y, x - 1),
       FloatAt(image, y - 1, x - 1),
       FloatAt(image, y - 1, x),
       FloatAt(image, y - 1, x + 1),
       FloatAt(image, y, x) >>

\* the radicand of std::sqrt(d1 * d1 + d2 * d2)
SumOfSquares(d1, d2) == d1 * d1 + d2 * d2

\* a comparison that sets the bit only for M1 > M2
BitIsSetStrictly(neighbors, i) ==
    LET gc == neighbors[9]
        gi == neighbors[i + 1]
        g_prev == IF i = 0 THEN neighbors[8] ELSE neighbors[i]
        g_next == IF i = 7 THEN neighbors[1] ELSE neighbors[i + 2]
    IN  SumOfSquares(g_prev - gc, g_next - gc)
            > SumOfSquares(g_prev - gi, g_next - gi)

\* M1 >= M2 for neighbour i (0-based), lines 110-159.  The radicands are
\* integers below 2^18, exact in float, and std::sqrt maps different such
\* integers to different floats in the same order, so the comparison of the
\* roots is the comparison of the radicands.
BitIsSet(neighbors, i) ==
    LET gc == neighbors[9]
        gi == neighbors[i + 1]
        g_prev == IF i = 0 THEN neighbors[8] ELSE neighbors[i]
        g_next == IF i = 7 THEN neighbors[1] ELSE neighbors[i + 2]
        M1 == SumOfSquares(g_prev - gc, g_next - gc)
        M2 == SumOfSquares(g_prev - gi, g_next - gi)
    IN  M1 >= M2

\* FeatureExtractor::computeLTriDPCode: code |= (1 << i) for i = 0..7
RECURSIVE CodeFrom(_, _)
CodeFrom(neighbors, i) ==
    IF i > 7 THEN 0
    ELSE (IF BitIsSet(neighbors, i) THEN 2 ^ i ELSE 0) + CodeFrom(neighbors, i + 1)

computeLTriDPCode(neighbors) == CodeFrom(neighbors, 0)

\* a buffer of the same size that was never cleared
uninitialised(rows, cols) ==
    [rows |-> rows, cols |-> cols, depth |-> "CV_8U", channels |-> 1,
     at |-> [p \in Coords(rows, cols) |-> 205]]

\* cv::Mat::zeros(size, CV_8U)
zeros(rows, cols) ==
    [rows |-> rows, cols |-> cols, depth |-> "CV_8U", channels |-> 1,
     at |-> [p \in Coords(rows, cols) |-> 0]]

\* a validation that forgets the columns
ExtractRejectsRowsOnly(img) ==
    \/ empty(img)
    \/ img.depth # "CV_8U"
    \/ img.rows < 3

\* the input validation of extract, lines 25-27
ExtractRejects(img) ==
    \/ empty(img)
    \/ img.depth # "CV_8U"
    \/ img.rows < 3
    \/ img.cols < 3

\* extract is entered: lines 25-45
ExtractCall ==
    /\ fpc = "start"
    /\ IF ExtractRejects(inputImage)
       THEN /\ fret' = "false"
            /\ fpc' = "returned"
            /\ UNCHANGED <<featureMap, fy, fx>>
       ELSE /\ featureMap' = zeros(inputImage.rows, inputImage.cols)
            /\ fy' = 1
            /\ fx' = 1
            /\ fpc' = "loop"
            /\ UNCHANGED fret
    /\ UNCHANGED <<inputImage, gamma, reconstructed, outputImage, ppc, pret, ran>>
    /\ UNCHANGED <<hvars, uvars, evars, wvars>>

\* one iteration of the inner loop, lines 49-59
ExtractPixel ==
    /\ fpc = "loop"
    /\ fy < inputImage.rows - 1
    /\ featureMap' =
          [featureMap EXCEPT
              !.at[<<fy, fx>>] = computeLTriDPCode(extractNeighborhood(inputImage, fx, fy))]
    /\ IF fx + 1 < inputImage.cols - 1
       THEN fx' = fx + 1 /\ fy' = fy
       ELSE fx' = 1 /\ fy' = fy + 1
    /\ UNCHANGED <<fpc, fret>>
    /\ UNCHANGED <<inputImage, gamma, reconstructed, outputImage, ppc, pret, ran>>
    /\ UNCHANGED <<hvars, uvars, evars, wvars>>

\* the loops are over: line 62
ExtractReturn ==
    /\ fpc = "loop"
    /\ fy >= inputImage.rows - 1
    /\ fret' = "true"
    /\ fpc' = "returned"
    /\ UNCHANGED <<featureMap, fy, fx>>
    /\ UNCHANGED <<inputImage, gamma, reconstructed, outputImage, ppc, pret, ran>>
    /\ UNCHANGED <<hvars, uvars, evars, wvars>>

AbsInt(x) == IF x < 0 THEN 0 - x ELSE x

\* n / d rounded to the nearest integer, halves to the even one (cvRound)
RoundHalfEven(n, d) ==
    LET q == n \div d
        r == n % d
    IN  IF 2 * r < d THEN q
        ELSE IF 2 * r > d THEN q + 1
        ELSE IF q % 2 = 0 THEN q ELSE q + 1

\* the values of the 3x3 neighbourhood of (y, x) that lie inside the image, in
\* the order of the two loops over dy and dx
Neighbourhood(img, y, x) ==
    LET RECURSIVE Collect(_)
        Collect(k) ==
            IF k > 8 THEN << >>
            ELSE LET ny == y + (k \div 3) - 1
                     nx == x + (k % 3) - 1
                 IN  (IF ny >= 0 /\ ny < img.rows /\ nx >= 0 /\ nx < img.cols
                      THEN <<FloatAt(img, ny, nx)>> ELSE << >>) \o Collect(k + 1)
    IN  Collect(0)

RECURSIVE Sum(_)
Sum(seq) == IF seq = << >> THEN 0 ELSE Head(seq) + Sum(Tail(seq))

\* std::sort
RECURSIVE Sorted(_)
Sorted(seq) ==
    IF seq = << >> THEN << >>
    ELSE LET k == CHOOSE i \in DOMAIN seq : \A j \in DOMAIN seq : seq[i] <= seq[j]
         IN  <<seq[k]>> \o Sorted([j \in 1..(Len(seq) - 1) |->
                                      IF j < k THEN seq[j] ELSE seq[j + 1]])

\* classifyRegionGroup with tieTolerance 0, on values in the same unit
classifyRegionGroup(grayValue, localMean, localMedian) ==
    LET distanceFG == AbsInt(grayValue - localMean)
        distanceFH == AbsInt(grayValue - localMedian)
        distanceGH == AbsInt(localMean - localMedian)
    IN  IF distanceFG > distanceGH /\ distanceFH > distanceGH THEN "GROUP_2_3"
        ELSE IF distanceFG > distanceFH /\ distanceGH > distanceFH THEN "GROUP_4_5"
        ELSE IF distanceFH > distanceFG /\ distanceGH > distanceFG THEN "GROUP_6_7"
        ELSE "GROUP_0_1"

\* the reconstructed value of pixel (y, x), lines 498-554, in units of 1/72
\* before the last division.  On 8-bit inputs every comparison and the final
\* rounding of the float computation fall on the same side as in exact
\* arithmetic: ties occur only between values a float holds exactly.
ReconstructedValue(img, y, x) ==
    LET nb == Neighbourhood(img, y, x)
        f == 72 * FloatAt(img, y, x)
        g == (72 * Sum(nb)) \div Len(nb)
        h == 72 * Sorted(nb)[(Len(nb) \div 2) + 1]
        group == classifyRegionGroup(f, g, h)
        f_star == CASE group = "GROUP_2_3" -> (g + h) \div 2
                    [] group = "GROUP_6_7" -> h
                    [] OTHER -> f
        g_star == CASE group = "GROUP_4_5" -> (f + h) \div 2
                    [] group = "GROUP_6_7" -> h
                    [] OTHER -> g
    IN  RoundHalfEven(f_star + g_star + h, 216)

\* Preprocessor::apply3DHistogramReconstruction: one grey value per pixel; a
\* 3-channel input gets it back in each of three channels (COLOR_GRAY2BGR)
apply3DHistogramReconstruction(input) ==
    [rows |-> input.rows, cols |-> input.cols, depth |-> "CV_8U",
     channels |-> IF input.channels = 3 THEN 3 ELSE 1,
     at |-> [p \in Coords(input.rows, input.cols) |->
               ReconstructedValue(input, p[1], p[2])]]

\* lookupTable[intensity]:
\* saturate_cast<uchar>(255 * (intensity / 255) ^ gamma)
lookupTable(intensity, halves) ==
    CASE halves = 1 ->
           CHOOSE r \in 0..255 :
               /\ (r = 0 \/ (2 * r - 1) * (2 * r - 1) <= 1020 * intensity)
               /\ 1020 * intensity < (2 * r + 1) * (2 * r + 1)
      [] halves = 2 -> intensity
      [] halves = 4 -> RoundHalfEven(intensity * intensity, 255)
      [] OTHER -> 255   \* not reached after validation: a power of at least 1

\* what saturate_cast<uchar> makes of a NaN
GarbageIntensities == {0, 255}

\* Preprocessor::applyGammaTransformation: cv::LUT through the table; with a
\* NaN gamma only pow(1, NaN) = 1 is a number
applyGammaTransformation(input, g, garbage) ==
    [input EXCEPT
        !.at = [p \in DOMAIN input.at |->
                  IF g.nan
                  THEN (IF input.at[p] = 255 THEN 255 ELSE garbage)
                  ELSE lookupTable(input.at[p], g.halves)]]

\* a validation that forgets gamma
EnhanceRejectsImageOnly(img, g) ==
    \/ empty(img)
    \/ img.depth # "CV_8U"

\* the input validation of enhance, lines 25-35; a NaN is not <= 0.0
EnhanceRejects(img, g) ==
    \/ empty(img)
    \/ img.depth # "CV_8U"
    \/ (~g.nan /\ g.halves <= 0)

\* enhance is entered: lines 25-35
EnhanceCall ==
    /\ ppc = "start"
    /\ IF EnhanceRejects(inputImage, gamma)
       THEN pret' = "false" /\ ppc' = "returned"
       ELSE pret' = pret /\ ppc' = "validated"
    /\ UNCHANGED <<inputImage, gamma, reconstructed, outputImage, ran>>
    /\ UNCHANGED <<featureMap, fy, fx, fpc, fret>>
    /\ UNCHANGED <<hvars, uvars, evars, wvars>>

\* line 38
EnhanceReconstruct ==
    /\ ppc = "validated"
    /\ reconstructed' = apply3DHistogramReconstruction(inputImage)
    /\ ran' = Append(ran, "apply3DHistogramReconstruction")
    /\ ppc' = "reconstructed"
    /\ UNCHANGED <<inputImage, gamma, outputImage, pret>>
    /\ UNCHANGED <<featureMap, fy, fx, fpc, fret>>
    /\ UNCHANGED <<hvars, uvars, evars, wvars>>

\* line 39
EnhanceGamma ==
    /\ ppc = "reconstructed"
    /\ \E garbage \in (IF gamma.nan THEN GarbageIntensities ELSE {0}) :
         outputImage' = applyGammaTransformation(reconstructed, gamma, garbage)
    /\ ran' = Append(ran, "applyGammaTransformation")
    /\ ppc' = "corrected"
    /\ UNCHANGED <<inputImage, gamma, reconstructed, pret>>
    /\ UNCHANGED <<featureMap, fy, fx, fpc, fret>>
    /\ UNCHANGED <<hvars, uvars, evars, wvars>>

\* line 41
EnhanceReturn ==
    /\ ppc = "corrected"
    /\ pret' = "true"
    /\ ppc' = "returned"
    /\ UNCHANGED <<inputImage, gamma, reconstructed, outputImage, ran>>
    /\ UNCHANGED <<featureMap, fy, fx, fpc, fret>>
    /\ UNCHANGED <<hvars, uvars, evars, wvars>>

LTriDPInit ==
    /\ \E rows \in Sides, cols \in Sides, depth \in Depths,
          channels \in ChannelCounts, pattern \in Patterns :
         inputImage = [rows |-> rows, cols |-> cols, depth |-> depth,
                       channels |-> channels, pattern |-> pattern]
    /\ gamma \in Gammas
    /\ featureMap = PriorMat
    /\ fy = 0
    /\ fx = 0
    /\ fpc = "start"
    /\ fret = "none"
    /\ reconstructed = EmptyMat
    /\ outputImage = PriorMat
    /\ ppc = "start"
    /\ pret = "none"
    /\ ran = << >>

\* the state of the LTriDP stages while other components run
LTriDPIdle ==
    /\ inputImage = [rows |-> 0, cols |-> 0, depth |-> "CV_8U",
                     channels |-> 1, pattern |-> "uniform"]
    /\ gamma = [nan |-> FALSE, halves |-> 2]
    /\ featureMap = PriorMat
    /\ fy = 0
    /\ fx = 0
    /\ fpc = "idle"
    /\ fret = "none"
    /\ reconstructed = EmptyMat
    /\ outputImage = PriorMat
    /\ ppc = "idle"
    /\ pret = "none"
    /\ ran = << >>

LTriDPNext ==
    \/ ExtractCall \/ ExtractPixel \/ ExtractReturn
    \/ EnhanceCall \/ EnhanceReconstruct \/ EnhanceGamma \/ EnhanceReturn


(***************************************************************************)
(* The multi-threaded descriptor stage of the indexing main: a vector of   *)
(* results, an atomic counter, numThreads workers, and the joins.          *)
(***************************************************************************)
Workers == 1 .. numThreads

\* a default-constructed ImageJobResult: empty path, ok = false
ImageJobResult == [path |-> 0, ok |-> FALSE]

\* processImageJob: the result carries the path; ok is false when the image
\* cannot be read or buildDescriptor throws, true otherwise
processImageJob(path) == {[path |-> path, ok |-> ok] : ok \in BOOLEAN}

\* a counter that hands out its value and stays as it is
fetch_keep(n) == [idx |-> n, next |-> n]

\* nextIndex.fetch_add(1): the value before, and the value stored, in one
\* atomic step
fetch_add(n) == [idx |-> n, next |-> n + 1]

\* the state of main when the workers are about to be created
WorkersInit ==
    /\ \E n \in 1 .. MaxImages : imagePaths = [k \in 1 .. n |-> k]
    /\ numThreads \in 1 .. MaxThreads
    /\ nextIndex = 0
    /\ results = [k \in 0 .. (Len(imagePaths) - 1) |-> ImageJobResult]
    /\ wpc = [w \in Workers |-> "unstarted"]
    /\ widx = [w \in Workers |-> 0]
    /\ wjob = [w \in Workers |-> ImageJobResult]
    /\ mpc = "spawn"
    /\ started = 0
    /\ joined = 0
    /\ claims = [k \in 0 .. (Len(imagePaths) - 1) |-> {}]
    /\ writes = [k \in 0 .. (Len(imagePaths) - 1) |-> << >>]

\* the state of the stage while other components run
WorkersIdle ==
    /\ imagePaths = << >>
    /\ numThreads = 0
    /\ nextIndex = 0
    /\ results = << >>
    /\ wpc = << >>
    /\ widx = << >>
    /\ wjob = << >>
    /\ mpc = "idle"
    /\ started = 0
    /\ joined = 0
    /\ claims = << >>
    /\ writes = << >>

\* threads.emplace_back(worker): the next thread starts running
Spawn ==
    /\ mpc = "spawn"
    /\ started < numThreads
    /\ started' = started + 1
    /\ wpc' = [wpc EXCEPT ![started + 1] = "fetch"]
    /\ mpc' = IF started + 1 = numThreads THEN "join" ELSE "spawn"
    /\ UNCHANGED <<imagePaths, numThreads, nextIndex, results, widx, wjob,
                   joined, claims, writes>>
    /\ UNCHANGED <<hvars, uvars, evars, lvars>>

\* size_t idx = nextIndex.fetch_add(1); if (idx >= imagePaths.size()) break;
Fetch(w) ==
    /\ w \in Workers
    /\ wpc[w] = "fetch"
    /\ LET got == fetch_add(nextIndex)
       IN  /\ nextIndex' = got.next
           /\ widx' = [widx EXCEPT ![w] = got.idx]
           /\ IF got.idx >= Len(imagePaths)
              THEN /\ wpc' = [wpc EXCEPT ![w] = "exited"]
                   /\ UNCHANGED claims
              ELSE /\ wpc' = [wpc EXCEPT ![w] = "process"]
                   /\ claims' = [claims EXCEPT ![got.idx] = @ \cup {w}]
    /\ UNCHANGED <<imagePaths, numThreads, results, wjob, mpc, started, joined,
                   writes>>
    /\ UNCHANGED <<hvars, uvars, evars, lvars>>

\* processImageJob(imagePaths[idx], featureType, mode) returns
Process(w) ==
    /\ w \in Workers
    /\ wpc[w] = "process"
    /\ \E result \in processImageJob(imagePaths[widx[w] + 1]) :
         wjob' = [wjob EXCEPT ![w] = result]
    /\ wpc' = [wpc EXCEPT ![w] = "store"]
    /\ UNCHANGED <<imagePaths, numThreads, nextIndex, results, widx, mpc,
                   started, joined, claims, writes>>
    /\ UNCHANGED <<hvars, uvars, evars, lvars>>

\* results[idx] = ...: the assignment of the slot
Store(w) ==
    /\ w \in Workers
    /\ wpc[w] = "store"
    /\ results' = [results EXCEPT ![widx[w]] = wjob[w]]
    /\ writes' = [writes EXCEPT ![widx[w]] = Append(@, w)]
    /\ wpc' = [wpc EXCEPT ![w] = "fetch"]
    /\ UNCHANGED <<imagePaths, numThreads, nextIndex, widx, wjob, mpc, started,
                   joined, claims>>
    /\ UNCHANGED <<hvars, uvars, evars, lvars>>

\* t.join() of the next thread returns once that thread has left its loop
Join ==
    /\ mpc = "join"
    /\ wpc[joined + 1] = "exited"
    /\ joined' = joined + 1
    /\ mpc' = IF joined + 1 = numThreads THEN "joined" ELSE "join"
    /\ UNCHANGED <<imagePaths, numThreads, nextIndex, results, wpc, widx, wjob,
                   started, claims, writes>>
    /\ UNCHANGED <<hvars, uvars, evars, lvars>>

\* a step of worker w
WorkerStep(w) == Fetch(w) \/ Process(w) \/ Store(w)

\* a step of the main thread
MainStep == Spawn \/ Join

WorkersNext ==
    \/ Spawn
    \/ \E w \in Workers : Fetch(w)
    \/ \E w \in Workers : Process(w)
    \/ \E w \in Workers : Store(w)
    \/ Join

(***************************************************************************)
(* Properties of the accumulation pass.                                    *)
(***************************************************************************)
\* every label of the map is in [0, superpixel_count)
ValidLabels ==
    \A p \in Coords(labels.rows, labels.cols) :
        labels.at[p] \in 0..(superpixel_count - 1)

\* the label map and the colour image are co-registered
SameShape ==
    input_image.rows = labels.rows /\ input_image.cols = labels.cols

\* the coordinates <<row, col>> the label map gives to superpixel sp
PixelsOf(sp) == {p \in Coords(labels.rows, labels.cols) : labels.at[p] = sp}

RECURSIVE TotalPixelCount(_, _)
TotalPixelCount(arr, n) ==
    IF n = 0 THEN 0 ELSE arr[n - 1].pixel_count + TotalPixelCount(arr, n - 1)


\* C1: for a label map with every label in [0, superpixel_count) and a
\* co-registered image, once Hash has completed the pixel_count fields of all
\* ids add up to rows * cols of the label map.
C1_PixelCountsSumToArea ==
    (hpc = "done" /\ ValidLabels /\ SameShape)
        => TotalPixelCount(superpixels, superpixel_count)
             = labels.rows * labels.cols

\* a completed pass over at least four pixels shared by two superpixels
C1_Witness ==
    /\ hpc = "done" /\ ValidLabels /\ SameShape
    /\ labels.rows * labels.cols >= 4
    /\ \E a, b \in 0..(superpixel_count - 1) :
         a # b /\ superpixels[a].pixel_count > 0 /\ superpixels[b].pixel_count > 1

\* C2: after the pass, for every id that owns a pixel, x_range is exactly
\* (minimum column, maximum column) and y_range exactly (minimum row, maximum
\* row) of the pixels labelled with that id.
C2_BoundingBoxIsTight ==
    (hpc = "done" /\ ValidLabels /\ SameShape)
        => \A sp \in 0..(superpixel_count - 1) :
             PixelsOf(sp) # {} =>
               /\ superpixels[sp].x_range.first  = Minimum({p[2] : p \in PixelsOf(sp)})
               /\ superpixels[sp].x_range.second = Maximum({p[2] : p \in PixelsOf(sp)})
               /\ superpixels[sp].y_range.first  = Minimum({p[1] : p \in PixelsOf(sp)})
               /\ superpixels[sp].y_range.second = Maximum({p[1] : p \in PixelsOf(sp)})

\* a completed pass in which one superpixel's box starts away from row 0 and
\* column 0, and another's was widened in both directions
C2_Witness ==
    /\ hpc = "done" /\ ValidLabels /\ SameShape
    /\ \E sp \in 0..(superpixel_count - 1) :
         /\ superpixels[sp].pixel_count > 0
         /\ superpixels[sp].x_range.first > 0
         /\ superpixels[sp].y_range.first > 0
    /\ \E sp \in 0..(superpixel_count - 1) :
         /\ superpixels[sp].x_range.first < superpixels[sp].x_range.second
         /\ superpixels[sp].y_range.first < superpixels[sp].y_range.second

\* C3: if some label is outside [0, superpixel_count), the pass fails with
\* OutOfRangeLabel and touches no record slot outside the array.
C3_OutOfRangeLabelRejected ==
    ~ValidLabels =>
        /\ "slot" \notin oob
        /\ hpc \in {"start", "loop", "OutOfRangeLabel"}

\* C4: if label map and image differ in shape, the pass fails with
\* InvalidInput before any pixel is read or any record written; it reads no
\* coordinate outside the image and returns no accumulated result.
C4_ShapeMismatchRejected ==
    ~SameShape =>
        /\ "image" \notin oob
        /\ hpc \in {"start", "loop", "InvalidInput"}
        /\ hpc = "loop" =>
             /\ row = 0 /\ col = 0
             /\ \A sp \in 0..(superpixel_count - 1) : superpixels[sp] = ZeroKey


\* position p of the label map comes before position q in row-major order
Before(p, q) == p[1] < q[1] \/ (p[1] = q[1] /\ p[2] < q[2])

\* the pixels of sp the loops have gone through when they stand at (row, col)
Processed(sp) == {p \in PixelsOf(sp) : Before(p, <<row, col>>)}

\* the pass is on a valid label map and a co-registered image
PassOnValidInput == hpc \in {"loop", "done"} /\ ValidLabels /\ SameShape

\* the change of the pixel count of sp in a step
CountChange(sp) == superpixels'[sp].pixel_count - superpixels[sp].pixel_count

\* C18: during the pass the pixel_count of every id never decreases: it grows
\* by exactly 1 in the iteration on a pixel with that label and is unchanged
\* in every other; it counts the pixels of that id gone through so far, and at
\* the end of the pass equals the number of label-map entries equal to the id.
C18_PixelCountGrowsByOnePerOwnPixel ==
    /\ [][(hpc = "loop" /\ ValidLabels /\ SameShape) =>
             \A sp \in 0..(superpixel_count - 1) :
                 CountChange(sp) = IF labels.at[<<row, col>>] = sp THEN 1 ELSE 0]_vars
    /\ [](PassOnValidInput =>
             \A sp \in 0..(superpixel_count - 1) :
                 /\ superpixels[sp].pixel_count = Cardinality(Processed(sp))
                 /\ hpc = "done" =>
                       superpixels[sp].pixel_count = Cardinality(PixelsOf(sp)))

\* a completed pass in which two ids alternate, one of them owning nothing on
\* the last row
C18_Witness ==
    /\ hpc = "done" /\ ValidLabels /\ SameShape /\ superpixel_count = 2
    /\ superpixels[0].pixel_count >= 2 /\ superpixels[1].pixel_count >= 2
    /\ labels.at[<<0, 0>>] = 1
    /\ labels.at[<<labels.rows - 1, labels.cols - 1>>] = 0

\* the last pixel of sp in row-major order
LastPixel(sp) == CHOOSE p \in PixelsOf(sp) : \A q \in PixelsOf(sp) : q = p \/ Before(q, p)

\* the sum of channel k of the image over a set of positions
RECURSIVE ChannelSum(_, _)
ChannelSum(S, k) ==
    IF S = {} THEN 0
    ELSE LET p == CHOOSE q \in S : TRUE
         IN  ImageAt(input_image, p[1], p[2])[k] + ChannelSum(S \ {p}, k)

\* the record of sp over all its pixels
FinalRecord(sp) ==
    [ l_tot |-> ChannelSum(PixelsOf(sp), 1),
      a_tot |-> ChannelSum(PixelsOf(sp), 2),
      b_tot |-> ChannelSum(PixelsOf(sp), 3),
      x_range |-> [first |-> Minimum({p[2] : p \in PixelsOf(sp)}),
                   second |-> Maximum({p[2] : p \in PixelsOf(sp)})],
      y_range |-> [first |-> Minimum({p[1] : p \in PixelsOf(sp)}),
                   second |-> Maximum({p[1] : p \in PixelsOf(sp)})],
      original_image |-> "input_image",
      pixel_count |-> Cardinality(PixelsOf(sp)) ]

\* the iterations at which the test of line 70 held for sp
HitsOf(sp) == {k \in DOMAIN hits : hits[k][1] = sp}

\* C19: with a pixel-count array equal to the true per-label counts, the test
\* curr.pixel_count == pixel_count[sp] holds exactly once for every non-empty
\* superpixel, in the iteration on its last pixel in row-major order (and in no
\* iteration for an empty one), and from that iteration on the record holds
\* its final colour sums, bounding box and count.
C19_AllSubpixelsFoundOnceAtLastPixel ==
    (PassOnValidInput /\ pixel_counts = CountPixels(labels, superpixel_count)) =>
        \A sp \in 0..(superpixel_count - 1) :
            IF PixelsOf(sp) # {} /\ LastPixel(sp) \in Processed(sp)
            THEN /\ Cardinality(HitsOf(sp)) = 1
                 /\ \A k \in HitsOf(sp) : <<hits[k][2], hits[k][3]>> = LastPixel(sp)
                 /\ superpixels[sp] = FinalRecord(sp)
            ELSE HitsOf(sp) = {}

\* the pass ended; the test held first for id 1, then for id 0, each at its
\* last pixel, which for id 1 is not the last one of the image
C19_Witness ==
    /\ hpc = "done" /\ ValidLabels /\ SameShape /\ superpixel_count = 2
    /\ Len(hits) = 2 /\ hits[1][1] = 1 /\ hits[2][1] = 0
    /\ superpixels[1].pixel_count >= 2 /\ superpixels[0].pixel_count >= 2
    /\ labels.at[<<0, 0>>] = 0

(***************************************************************************)
(* Properties of SuperDuperPixel.                                          *)
(***************************************************************************)
RECURSIVE WeightedSum(_, _, _)
\* sum over the first k member contributions of value * pixel_count
WeightedSum(ms, color_channel, k) ==
    IF k = 0 THEN 0
    ELSE ms[k][1][color_channel] * ms[k][2] + WeightedSum(ms, color_channel, k - 1)

RECURSIVE CountSum(_, _)
\* sum over the first k member contributions of pixel_count
CountSum(ms, k) == IF k = 0 THEN 0 ELSE ms[k][2] + CountSum(ms, k - 1)

\* every call on object h so far passed a vector as long as its own
EqualLengths(h) ==
    \A k \in 1..Len(members[h]) :
        Len(members[h][k][1]) = Len(units[h].average_or_histogram)

Channels(h) == 1..Len(units[h].average_or_histogram)

MergeLeft(x, y, z) ==
    operator_plus_eq(operator_plus_eq(units[x], units[y], IntToFloat(0)),
                     units[z], IntToFloat(0))

\* x += (y += z)
MergeRight(x, y, z) ==
    operator_plus_eq(units[x],
                     operator_plus_eq(units[y], units[z], IntToFloat(0)),
                     IntToFloat(0))

\* A, B, C in every order
Orders ==
    {p \in Handles \X Handles \X Handles : p[1] # p[2] /\ p[2] # p[3] /\ p[1] # p[3]}

\* the units every order and grouping of the two merges ends with
MergeResults ==
    {MergeLeft(p[1], p[2], p[3]) : p \in Orders}
        \cup {MergeRight(p[1], p[2], p[3]) : p \in Orders}

\* the three objects hold vectors of one length, and are as constructed or
\* one call later
ThreeComparable ==
    /\ upc = "run" /\ calls <= 1
    /\ \A h \in Handles :
         Len(units[h].average_or_histogram) = Len(units["A"].average_or_histogram)

SetOfSeq(s) == {s[k] : k \in DOMAIN s}

Dist(i, j) ==
    distance_from(units[i], units[j].average_or_histogram, IntToFloat(0),
                  Len(units[i].average_or_histogram))

SameLength(i, j) ==
    Len(units[i].average_or_histogram) = Len(units[j].average_or_histogram)

\* C7: for units U, V with vectors of equal length,
\* U.distance_from(V's vector) = V.distance_from(U's vector).
C7_DistanceSymmetric ==
    \A i, j \in Handles :
        (upc = "run" /\ SameLength(i, j)) => Dist(i, j) = Dist(j, i)

\* two units, one of them merged, at a distance that is not zero
C7_Witness ==
    \E i, j \in Handles :
        /\ upc = "run" /\ SameLength(i, j)
        /\ Len(units[i].superpixels) >= 2
        /\ Len(units[i].average_or_histogram) = 2
        /\ Dist(i, j) > 0
        /\ units[i].average_or_histogram[1] < units[j].average_or_histogram[1]
        /\ units[i].average_or_histogram[2] > units[j].average_or_histogram[2]

RECURSIVE ExactL1(_, _, _)
\* sum over the first n channels of |a - b|, without rounding
ExactL1(a, b, n) ==
    IF n = 0 THEN 0 ELSE AbsInt(a[n] - b[n]) + ExactL1(a, b, n - 1)

\* the last call was distance_from, on vectors of equal length, and returned
LastIsDistance ==
    /\ upc = "run" /\ last.op = "distance_from"
    /\ SameLength(last.this, last.other)

LastL1 ==
    ExactL1(units[last.this].average_or_histogram,
            units[last.other].average_or_histogram,
            Len(units[last.this].average_or_histogram))

LastArgument ==
    IF last.op = "add_superpixel"
    THEN members[last.other][1][1]
    ELSE units[last.other].average_or_histogram

\* the last call was given a vector of another length than the receiver's
LastMismatched ==
    /\ last.op # "none"
    /\ Len(units[last.this].average_or_histogram) # Len(LastArgument)

\* C9: distance_from, add_superpixel and operator+= fail with a precondition
\* violation when the two vectors differ in length, and leave the unit's
\* member list, vector and pixel count unchanged.
C9_MismatchFailsAndChangesNothing ==
    [][ (calls' = calls + 1 /\ LastMismatched')
          => (upc' = "abort" /\ units' = units) ]_vars


\* ---- add_superpixel -----------------------------------------------------
\* the step is a completed call this.add_superpixel(id, v, n) with a vector
\* v as long as the unit's own
AddSuperpixelReturns ==
    /\ upc = "run" /\ upc' = "run"
    /\ calls' = calls + 1
    /\ last'.op = "add_superpixel"
    /\ Len(members[last'.other][1][1])
         = Len(units[last'.this].average_or_histogram)

\* C26: add_superpixel(id, v, n) appends id to the end of the member list
\* (one entry more, the earlier ones unchanged), sets pixel_count to the old
\* count plus n, and sets every channel to
\* (old_value * old_pixel_count + v[channel] * n) / (old_pixel_count + n),
\* taken in float arithmetic with the count from before the update; for
\* non-negative values that is within 4 * 2^-Precision of the exact quotient
C26_AddSuperpixelEffect ==
    [][AddSuperpixelReturns =>
          LET old == units[last'.this]
              new == units'[last'.this]
              id == IdOf(last'.other)
              v == members[last'.other][1][1]
              n == members[last'.other][1][2]
          IN  /\ Len(new.superpixels) = Len(old.superpixels) + 1
              /\ new.superpixels[Len(new.superpixels)] = id
              /\ \A k \in DOMAIN old.superpixels :
                   new.superpixels[k] = old.superpixels[k]
              /\ new.pixel_count = old.pixel_count + n
              /\ DOMAIN new.average_or_histogram = DOMAIN old.average_or_histogram
              /\ \A c \in DOMAIN old.average_or_histogram :
                   /\ new.average_or_histogram[c] =
                        FDiv(FAdd(FMul(old.average_or_histogram[c],
                                       IntToFloat(old.pixel_count)),
                                  FMul(v[c], IntToFloat(n))),
                             IntToFloat(old.pixel_count + n))
                   /\ AbsInt(new.average_or_histogram[c] * (old.pixel_count + n)
                               - (old.average_or_histogram[c] * old.pixel_count
                                    + v[c] * n)) * (2 ^ Precision)
                        <= 4 * (old.average_or_histogram[c] * old.pixel_count
                                  + v[c] * n)
              /\ \A h \in Handles \ {last'.this} : units'[h] = units[h]]_vars

\* a second add_superpixel on one unit, with a vector that differs from the
\* unit's and a larger weight
C26_Witness ==
    /\ upc = "run" /\ last.op = "add_superpixel"
    /\ Len(units[last.this].superpixels) = 3
    /\ members[last.other][1][2] = MaxCount
    /\ units[last.this].average_or_histogram # members[last.this][1][1]

(***************************************************************************)
(* Claims about the duperization engine.                                   *)
(***************************************************************************)
\* C10: with a merge threshold <= 0 the engine performs no merge: one unit
\* per input superpixel, each with the singleton member list of its own id
\* and the feature vector and pixel count of its input record.
C10_NoMergeAtNonPositiveThreshold ==
    (threshold <= 0 /\ epc \in {"pass", "done", "ConvergenceLimitReached"}) =>
        /\ live = Ids
        /\ merged = 0
        /\ epc # "ConvergenceLimitReached"
        /\ \A id \in Ids :
             eunits[id] = SuperDuperPixel(id, records[id + 1][1], records[id + 1][2])

\* the engine finished at threshold <= 0 with two units in one bucket, of
\* different vectors, and two of equal vectors
C10_Witness ==
    /\ threshold <= 0 /\ epc = "done"
    /\ \E i, j \in Ids :
         /\ i < j
         /\ BucketKey(records[i + 1][1]) = BucketKey(records[j + 1][1])
         /\ records[i + 1][1][1] < records[j + 1][1][1]
    /\ \E i, j \in Ids : i # j /\ records[i + 1][1] = records[j + 1][1]

\* C11: the merge loop terminates.  Every merge removes exactly one unit from
\* the live ones, so at least one unit stays live, N units allow at most
\* N - 1 merges and at most N passes, and the engine eventually stops, at a
\* pass without merges or at the iteration cap.
C11_EngineTerminates ==
    /\ [][merged' > merged =>
             Cardinality(live') = Cardinality(live) - (merged' - merged)]_vars
    /\ [][Cardinality(live') < Cardinality(live) => merged' > merged]_vars
    /\ [](epc \in {"pass", "done", "ConvergenceLimitReached"} =>
             /\ Cardinality(live) >= 1
             /\ Len(records) - Cardinality(live) <= Len(records) - 1
             /\ passes <= Len(records))
    /\ <>(epc \in {"done", "ConvergenceLimitReached"})

\* the engine stopped at a fixed point after a pass that merged
C11_Witness ==
    /\ epc = "done" /\ passes >= 2
    /\ Cardinality(live) < Len(records)

\* the distance the engine computes between two units
UnitDistance(u, w) ==
    distance_from(eunits[u], eunits[w].average_or_histogram, IntToFloat(0),
                  Len(eunits[u].average_or_histogram))

\* two distinct surviving units listed in one bucket of the index
SameBucket(u, w) ==
    /\ u \in live /\ w \in live /\ u # w
    /\ \E key \in DOMAIN index :
         \E i, j \in DOMAIN index[key] : index[key][i] = u /\ index[key][j] = w

\* C12: when the engine has stopped at a fixed point, no two distinct
\* surviving units of one bucket of the index are at an L1 distance strictly
\* below the threshold.
C12_FixedPointHasNoMergeablePair ==
    epc = "done" =>
        \A u, w \in Ids : SameBucket(u, w) => ~(UnitDistance(u, w) < threshold)

\* a fixed point reached after a merge, with two surviving units in one
\* bucket exactly at the threshold
C12_Witness ==
    /\ epc = "done" /\ threshold > 0
    /\ Cardinality(live) < Len(records)
    /\ \E u, w \in Ids : SameBucket(u, w) /\ UnitDistance(u, w) = threshold

\* the sizes and counts of the buckets of the five components
BucketSizes == <<lab_bucket_size, lab_bucket_size, lab_bucket_size, x_bucket_size, y_bucket_size>>

BucketCounts == <<lab_buckets, lab_buckets, lab_buckets, x_buckets, y_buckets>>

\* component d of the key is in range, is the last bucket for a value at or
\* beyond the maximum, and is floor(value / bucket_size) for a value below it
ComponentInRange(v, d) ==
    LET b == BucketKey(v)[d]
        width == BucketSizes[d] * One      \* in the unit of the float values
        maximum == BucketCounts[d] * width
    IN  /\ b \in 0 .. (BucketCounts[d] - 1)
        /\ v[d] >= maximum => b = BucketCounts[d] - 1
        /\ (v[d] >= 0 /\ v[d] < maximum) =>
              (b * width <= v[d] /\ v[d] < (b + 1) * width)

\* C20: for every feature vector, each of the five components of the bucket
\* key lies in [0, bucket_count) of its dimension (16 colour buckets of width
\* 16, 10 x-buckets of width 384, 10 y-buckets of width 216), is
\* floor(value / bucket_size) below the maximum, and is the last bucket for a
\* value at or beyond the maximum; the keys of the index are such keys.
C20_BucketKeyInRange ==
    /\ lab_bucket_size = 16 /\ x_bucket_size = 384 /\ y_bucket_size = 216
    /\ \A k \in DOMAIN records : \A d \in 1..5 : ComponentInRange(records[k][1], d)
    /\ epc \in {"pass", "done", "ConvergenceLimitReached"} =>
          /\ \A u \in live : \A d \in 1..5 :
                ComponentInRange(eunits[u].average_or_histogram, d)
          /\ \A key \in DOMAIN index : \A d \in 1..5 :
                key[d] \in 0 .. (BucketCounts[d] - 1)

\* the index holds a unit in the last bucket of l, x and y, whose values are
\* at or beyond the maxima, and in an inner bucket of a; and a unit whose l
\* lies in the second bucket
C20_Witness ==
    /\ epc = "done"
    /\ \E u \in live :
         /\ eunits[u].average_or_histogram[1] >= 256 * One
         /\ eunits[u].average_or_histogram[4] = max_img_w * One
         /\ eunits[u].average_or_histogram[5] > max_img_h * One
         /\ BucketKey(eunits[u].average_or_histogram) = <<15, 12, 0, 9, 9>>
         /\ BucketKey(eunits[u].average_or_histogram) \in DOMAIN index
    /\ \E u \in live : BucketKey(eunits[u].average_or_histogram) = <<1, 0, 0, 0, 0>>

\* the places <<key, position>> of the index that hold unit u
PlacesOf(u) ==
    {place \in {<<key, k>> : key \in DOMAIN index, k \in 1..(MaxSP + 2)} :
        place[2] \in DOMAIN index[place[1]] /\ index[place[1]][place[2]] = u}

\* the engine stands between two of its steps
BetweenSteps == epc \in {"pass", "done", "ConvergenceLimitReached"}

\* C21: between engine steps every live unit is in exactly one bucket of the
\* index, exactly once, and the key of that bucket is the discretization of
\* the unit's current vector, whatever the vector it was first inserted with.
C21_LiveUnitsKeyedByCurrentVector ==
    BetweenSteps =>
        \A u \in live :
            /\ Cardinality(PlacesOf(u)) = 1
            /\ \A place \in PlacesOf(u) :
                  place[1] = BucketKey(eunits[u].average_or_histogram)

\* a unit has absorbed another and its vector now discretizes to another key
\* than the vector of its record did
C21_Witness ==
    /\ epc = "done"
    /\ \E u \in live :
         /\ Len(get_superpixels(eunits[u])) > 1
         /\ BucketKey(eunits[u].average_or_histogram) # BucketKey(records[u + 1][1])
         /\ PlacesOf(u) # {}


RECURSIVE MergePairs(_, _, _, _)
\* the merges of one visit, in order: for each, the vector of the querying
\* unit and the vector of the candidate at the moment they are merged
MergePairs(s, self, cands, k) ==
    IF k > Len(cands) THEN << >>
    ELSE LET t == ConsiderCandidate(s, self, cands[k])
             pair == <<s.eunits[self].average_or_histogram,
                       s.eunits[cands[k]].average_or_histogram>>
         IN  (IF t.merged > s.merged THEN <<pair>> ELSE << >>)
                 \o MergePairs(t, self, cands, k + 1)

\* the merges of the visit that the next step of the pass performs
NextMerges ==
    MergePairs([eunits |-> eunits, live |-> live, index |-> index,
                merged |-> merged], Current, Candidates, 1)

\* a visit is about to happen
AtVisit == epc = "pass" /\ live \ visited # {}

\* the live units whose current vector has the key of v
LiveInBucketOf(v) ==
    {u \in live : BucketKey(eunits[u].average_or_histogram) = BucketKey(v)}

NoDuplicates(list) ==
    \A i, j \in DOMAIN list : i # j => list[i] # list[j]

\* C23: no unit is merged with itself: the candidate list of a visit does
\* not contain the visiting unit, the visiting unit is never the absorbed
\* one (it survives its own visit), and no member list holds an id twice
C23_NoSelfMerge ==
    [][AtVisit =>
          /\ \A k \in DOMAIN Candidates : Candidates[k] # Current
          /\ Current \in live'
          /\ live \ live' = {Candidates[k] : k \in DOMAIN Candidates} \ live'
          /\ \A u \in live' : NoDuplicates(get_superpixels(eunits'[u]))]_vars

\* a unit that has absorbed two others out of its own bucket
C23_Witness ==
    /\ epc = "pass"
    /\ \E u \in live : Len(get_superpixels(eunits[u])) = 3


\* what a step can leave as units and live set, whatever the order in which
\* a visit processes its candidates
Outcomes ==
    IF epc = "start"
    THEN {[eunits |-> [id \in Ids |-> SuperDuperPixel(id, records[id + 1][1],
                                                     records[id + 1][2])],
           live |-> Ids]}
    ELSE IF AtVisit
         THEN {LET after == VisitedIn(order)
               IN  [eunits |-> after.eunits, live |-> after.live] :
                   order \in AnyCandidateOrder}
         ELSE {[eunits |-> eunits, live |-> live]}

\* what a step may leave as units and live set, over the orders in which the
\* engine may process the candidates of a visit
StepOutcomes ==
    IF epc = "start"
    THEN {[eunits |-> [id \in Ids |-> SuperDuperPixel(id, records[id + 1][1],
                                                     records[id + 1][2])],
           live |-> Ids]}
    ELSE IF AtVisit
         THEN {LET after == VisitedIn(order)
               IN  [eunits |-> after.eunits, live |-> after.live] :
                   order \in CandidateOrders}
         ELSE {[eunits |-> eunits, live |-> live]}

\* where the run is after a step: in the pass, or after the end of a pass at
\* the fixed point, at the iteration cap, or in the next pass
StepPosition ==
    IF epc = "pass" /\ live \ visited = {}
    THEN IF merged = 0 THEN <<"done", passes + 1>>
         ELSE IF passes + 1 >= cap THEN <<"ConvergenceLimitReached", passes + 1>>
              ELSE <<"pass", passes + 1>>
    ELSE <<"pass", passes>>

\* the surviving units with their member lists and vectors
Surviving(us, ls) == [u \in ls |-> us[u]]

DistanceFromCurrent(u) ==
    distance_from(eunits[Current], eunits[u].average_or_histogram,
                  IntToFloat(0), 5)

C24_WitnessOrderMatters ==
    AtVisit /\ Cardinality(Outcomes) > 1


\* the input records of the members of unit u, in member-list order
EngineMembers(u) ==
    [k \in DOMAIN get_superpixels(eunits[u]) |->
        records[get_superpixels(eunits[u])[k] + 1]]

\* the engine has stopped at the iteration cap, after a pass with merges, and
\* takes no further step
StoppedAtCap ==
    /\ passes = cap
    /\ merged > 0
    /\ ~ ENABLED EngineNext

\* every original id is in the member list of a live unit
MembersCoverIds ==
    UNION {SetOfSeq(get_superpixels(eunits[u])) : u \in live} = Ids

RECURSIVE MembersAfter(_, _, _, _)
\* the member list of a unit that starts with list and absorbs, in the order
\* of cands from the k-th on, those candidates that are in gone
MembersAfter(list, cands, k, gone) ==
    IF k > Len(cands) THEN list
    ELSE MembersAfter(IF cands[k] \in gone
                      THEN list \o get_superpixels(eunits[cands[k]])
                      ELSE list,
                      cands, k + 1, gone)

RECURSIVE PixelCountOf(_)
\* the pixel counts of a set of units, summed
PixelCountOf(us) ==
    IF us = {} THEN 0
    ELSE LET u == CHOOSE w \in us : TRUE
         IN  eunits[u].pixel_count + PixelCountOf(us \ {u})

\* the ids the index holds
Indexed(idx) == UNION {SetOfSeq(idx[key]) : key \in DOMAIN idx}

\* C27: after A += B in a visit, A's member list is its previous list
\* followed by all of B's members, A's pixel count is the sum of the two
\* counts, and B is destroyed: it is not live, each of its members belongs
\* to live A, it is in no bucket (so no query returns it), and it is never
\* live, indexed or changed by a merge again
C27_MergeEffectAndAbsorbedDestroyed ==
    [][(epc = "pass") =>
          /\ live' \subseteq live
          /\ Indexed(index') = live'
          /\ \A b \in Ids \ live : eunits'[b] = eunits[b]
          /\ AtVisit =>
               LET A == Current
                   gone == live \ live'
               IN  /\ A \in live'
                   /\ get_superpixels(eunits'[A])
                        = MembersAfter(get_superpixels(eunits[A]),
                                       Candidates, 1, gone)
                   /\ eunits'[A].pixel_count
                        = eunits[A].pixel_count + PixelCountOf(gone)
                   /\ \A b \in gone :
                        /\ eunits'[b] = eunits[b]
                        /\ SetOfSeq(get_superpixels(eunits[b]))
                             \subseteq SetOfSeq(get_superpixels(eunits'[A]))
                        /\ \A w \in live' \ {A} :
                             SetOfSeq(get_superpixels(eunits'[w]))
                                \cap SetOfSeq(get_superpixels(eunits[b])) = {}]_vars

\* the engine has finished, a unit was absorbed in an earlier pass, and the
\* survivor holds its members after its own
C27_Witness ==
    /\ epc = "done" /\ passes > 1
    /\ \E A \in live : \E b \in Ids \ live :
         /\ get_superpixels(eunits[A]) = <<A>> \o get_superpixels(eunits[b])
         /\ eunits[A].pixel_count = records[A + 1][2] + records[b + 1][2]
         /\ records[b + 1][2] = MaxCount

(***************************************************************************)
(* Properties of the pipeline.                                             *)
(***************************************************************************)
\* the 4x4 label map of four 2x2 quadrants with ids 0..3
QuadrantMap ==
    /\ labels.rows = 4 /\ labels.cols = 4
    /\ \A p \in DOMAIN labels.at : labels.at[p] = 2 * (p[1] \div 2) + (p[2] \div 2)

\* the image of C13: quadrant colours (10,10,10), (10,10,10), (200,200,200),
\* (200,200,200), run at threshold 5
C13_Scenario ==
    /\ QuadrantMap
    /\ superpixel_count = 4
    /\ input_image.rows = 4 /\ input_image.cols = 4
    /\ input_image.colours = [id \in 0..3 |-> IF id < 2 THEN 10 ELSE 200]
    /\ threshold = IntToFloat(5)

\* the member sets of the surviving units
MemberSets == {SetOfSeq(get_superpixels(eunits[u])) : u \in live}

\* C13: on the 4x4 map of four 2x2 quadrants with ids 0..3 and colours 10, 10,
\* 200, 200, the pipeline at threshold 5 ends with exactly two surviving units,
\* whose member sets are {0,1} and {2,3}.
C13_QuadrantsMergeIntoTwoUnits ==
    (C13_Scenario /\ epc \in {"done", "ConvergenceLimitReached"}) =>
        /\ Cardinality(live) = 2
        /\ MemberSets = {{0, 1}, {2, 3}}

\* the pipeline of C13 ran to its fixed point
C13_Witness ==
    C13_Scenario /\ epc = "done" /\ hpc = "done" /\ passes = 2

\* a single id covers the whole label map
SingleId ==
    /\ superpixel_count = 1
    /\ \A p \in DOMAIN labels.at : labels.at[p] = 0

\* C14: when a single id covers the whole image, the accumulation pass reports
\* pixel count rows * cols, x_range (0, cols - 1) and y_range (0, rows - 1),
\* and the engine returns exactly one unit, whatever the threshold (positive,
\* zero or negative).
C14_SingleIdYieldsOneUnit ==
    SingleId =>
        /\ hpc = "done" =>
              /\ superpixels[0].pixel_count = labels.rows * labels.cols
              /\ superpixels[0].x_range = [first |-> 0, second |-> labels.cols - 1]
              /\ superpixels[0].y_range = [first |-> 0, second |-> labels.rows - 1]
        /\ epc \in {"pass", "done", "ConvergenceLimitReached"} =>
              /\ live = {0}
              /\ get_superpixels(eunits[0]) = <<0>>
              /\ eunits[0].pixel_count = labels.rows * labels.cols
              /\ epc # "ConvergenceLimitReached"

\* the engine returned from a wide single-id image, at a negative threshold
C14_Witness ==
    /\ SingleId /\ labels.rows = 2 /\ labels.cols = 4
    /\ hpc = "done" /\ epc = "done" /\ threshold < 0

\* the same at zero and at a positive threshold
C14_WitnessZero ==
    SingleId /\ labels.rows = 4 /\ hpc = "done" /\ epc = "done" /\ threshold = 0

C14_WitnessPositive ==
    SingleId /\ labels.rows = 1 /\ hpc = "done" /\ epc = "done" /\ threshold > 0


\* the places of id in the member lists of the live units
Owners(id) ==
    {place \in live \X (1 .. (MaxSP + 2)) :
        /\ place[2] \in DOMAIN get_superpixels(eunits[place[1]])
        /\ get_superpixels(eunits[place[1]])[place[2]] = id}

\* C29: after any merges of the engine, every id in [0, superpixel_count) is
\* in the member list of exactly one live unit, exactly once, the lists hold
\* nothing else, and the pixel counts of the live units sum to the number of
\* pixels of the label map the records were accumulated from
C29_MembersPartitionIdsAndPixels ==
    (epc \in {"pass", "done", "ConvergenceLimitReached"}
        /\ ValidLabels /\ SameShape) =>
        /\ \A id \in 0 .. (superpixel_count - 1) : Cardinality(Owners(id)) = 1
        /\ \A u \in live :
             /\ Len(get_superpixels(eunits[u])) <= MaxSP + 2
             /\ SetOfSeq(get_superpixels(eunits[u]))
                   \subseteq 0 .. (superpixel_count - 1)
        /\ PixelCountOf(live) = labels.rows * labels.cols

\* the engine has merged the four quadrants of a 4x4 map into fewer units
C29_Witness ==
    /\ epc \in {"pass", "done"} /\ ValidLabels /\ SameShape
    /\ superpixel_count = 4 /\ labels.rows = 4
    /\ Cardinality(live) < 4
    /\ \E u \in live : Len(get_superpixels(eunits[u])) > 1

(***************************************************************************)
(* Properties of the LTriDP stages.                                        *)
(***************************************************************************)
\* the input has no pixels
IsEmpty == inputImage.rows = 0 \/ inputImage.cols = 0

Is8Bit == inputImage.depth = "CV_8U"

\* C15: extract returns false when the input is empty, is not 8-bit unsigned,
\* or has fewer than 3 rows or fewer than 3 columns; it returns true for every
\* non-empty 8-bit image of at least 3x3 pixels, grey or 3-channel.  It does
\* return: until it has, one of its steps can be taken.
C15_ExtractValidatesInput ==
    /\ fpc = "returned" =>
          /\ (IsEmpty \/ ~Is8Bit \/ inputImage.rows < 3 \/ inputImage.cols < 3)
                => fret = "false"
          /\ (/\ ~IsEmpty /\ Is8Bit
              /\ inputImage.rows >= 3 /\ inputImage.cols >= 3
              /\ inputImage.channels \in {1, 3})
                => fret = "true"
    /\ fpc \in {"start", "loop"} =>
          ENABLED (ExtractCall \/ ExtractPixel \/ ExtractReturn)

\* extract accepted a 3-channel image of the minimum size
C15_Witness ==
    /\ fpc = "returned" /\ fret = "true"
    /\ inputImage.rows = 3 /\ inputImage.cols = 3 /\ inputImage.channels = 3

\* extract rejected an 8-bit image with enough rows and too few columns
C15_WitnessRejected ==
    /\ fpc = "returned" /\ fret = "false"
    /\ Is8Bit /\ inputImage.rows >= 3 /\ inputImage.cols = 2

\* the positions of the 1-pixel border of the feature map
Border ==
    {p \in DOMAIN featureMap.at :
        \/ p[1] = 0 \/ p[1] = featureMap.rows - 1
        \/ p[2] = 0 \/ p[2] = featureMap.cols - 1}

\* C16: for every accepted input the feature map has the rows and columns of
\* the input and one channel, every pixel of its 1-pixel border is 0, and the
\* interior pixels, and only they, hold an LTriDP code.
C16_FeatureMapShapeAndBorder ==
    (fpc \in {"loop", "returned"} /\ fret # "false") =>
        /\ featureMap.rows = inputImage.rows
        /\ featureMap.cols = inputImage.cols
        /\ featureMap.channels = 1
        /\ DOMAIN featureMap.at = Coords(inputImage.rows, inputImage.cols)
        /\ \A p \in Border : featureMap.at[p] = 0
        /\ fret = "true" =>
              \A p \in DOMAIN featureMap.at \ Border :
                  featureMap.at[p] =
                      computeLTriDPCode(extractNeighborhood(inputImage, p[2], p[1]))

\* extract returned a 4x4 feature map with a non-zero code in its interior
C16_Witness ==
    /\ fpc = "returned" /\ fret = "true"
    /\ featureMap.rows = 4 /\ featureMap.cols = 4
    /\ \E p \in DOMAIN featureMap.at \ Border : featureMap.at[p] # 0
    /\ \E p, q \in DOMAIN featureMap.at \ Border : featureMap.at[p] # featureMap.at[q]

\* the private stages of enhance, in the order of a completed call
BothStages == <<"apply3DHistogramReconstruction", "applyGammaTransformation">>

\* C17: enhance returns false, having run neither stage and left outputImage
\* as it was, when the input is empty, is not 8-bit unsigned, or gamma <= 0;
\* for every other input it runs reconstruction, then gamma correction, and
\* returns true.
C17_EnhanceValidatesThenRunsBothStages ==
    /\ ppc = "returned" =>
          IF IsEmpty \/ ~Is8Bit \/ (~gamma.nan /\ gamma.halves <= 0)
          THEN pret = "false" /\ ran = << >> /\ outputImage = PriorMat
          ELSE pret = "true" /\ ran = BothStages
    /\ ran \in {<< >>, SubSeq(BothStages, 1, 1), BothStages}
    /\ ran # BothStages => outputImage = PriorMat
    /\ ppc \in {"start", "validated", "reconstructed", "corrected"} =>
          ENABLED (EnhanceCall \/ EnhanceReconstruct \/ EnhanceGamma \/ EnhanceReturn)

\* enhance ran both stages on a 3-channel image and wrote an output of the
\* input's size
C17_Witness ==
    /\ ppc = "returned" /\ pret = "true" /\ ran = BothStages
    /\ inputImage.channels = 3 /\ gamma.halves = 1
    /\ outputImage.rows = inputImage.rows /\ outputImage.cols = inputImage.cols
    /\ \E p \in DOMAIN outputImage.at : outputImage.at[p] # reconstructed.at[p]

\* enhance rejected an 8-bit image because of gamma = 0
C17_WitnessRejected ==
    /\ ppc = "returned" /\ pret = "false"
    /\ ~IsEmpty /\ Is8Bit /\ gamma.halves = 0 /\ ~gamma.nan


\* neighbour number i wrapped into 1..8
Cyclic(i) == ((i - 1) % 8) + 1

\* bit number b (from 0) of code
Bit(code, b) == (code \div (2 ^ b)) % 2

\* C28: in the feature map extract returns, the code of every interior
\* pixel has bit i-1 set for neighbour g_i (i = 1..8) exactly when M1 >= M2,
\* with M1^2 = (g_prev-gc)^2 + (g_next-gc)^2, M2^2 = (g_prev-g_i)^2 +
\* (g_next-g_i)^2 and prev, next cyclic in 1..8; nine equal values give 255
C28_CodeBitsFollowTriangleMagnitudes ==
    (fpc = "returned" /\ fret = "true") =>
        \A p \in DOMAIN featureMap.at \ Border :
            LET g == extractNeighborhood(inputImage, p[2], p[1])
                gc == g[9]
                code == featureMap.at[p]
            IN  /\ code \in 0 .. 255
                /\ \A i \in 1 .. 8 :
                     LET g_prev == g[Cyclic(i - 1)]
                         g_next == g[Cyclic(i + 1)]
                         M1sq == (g_prev - gc) * (g_prev - gc)
                                    + (g_next - gc) * (g_next - gc)
                         M2sq == (g_prev - g[i]) * (g_prev - g[i])
                                    + (g_next - g[i]) * (g_next - g[i])
                     IN  Bit(code, i - 1) = 1 <=> M1sq >= M2sq
                /\ (\A i \in 1 .. 8 : g[i] = gc) => code = 255

\* a returned feature map with the code 255 from nine equal values
C28_WitnessUniform ==
    /\ fpc = "returned" /\ fret = "true"
    /\ \E p \in DOMAIN featureMap.at \ Border :
         /\ featureMap.at[p] = 255
         /\ \A i \in 1 .. 8 :
              extractNeighborhood(inputImage, p[2], p[1])[i]
                 = extractNeighborhood(inputImage, p[2], p[1])[9]

\* a returned feature map with a code that has bits set and bits clear, and
\* whose first and last bit differ
C28_WitnessMixed ==
    /\ fpc = "returned" /\ fret = "true"
    /\ \E p \in DOMAIN featureMap.at \ Border :
         /\ featureMap.at[p] \notin {0, 255}
         /\ Bit(featureMap.at[p], 0) # Bit(featureMap.at[p], 7)


(***************************************************************************)
(* Properties of the descriptor stage.                                     *)
(***************************************************************************)
Indices == 0 .. (Len(imagePaths) - 1)

\* worker w is between its fetch_add and the end of its assignment
Holds(w, k) == wpc[w] \in {"process", "store"} /\ widx[w] = k

\* every slot holds the result of its own path
AllFilled == \A k \in Indices : results[k].path = imagePaths[k + 1]

\* no index is handed to two workers, a slot is assigned only by the worker
\* that claimed its index and at most once, and no two workers are at work
\* on one slot
ClaimedAndWrittenAtMostOnce ==
    \A k \in Indices :
        /\ Cardinality(claims[k]) <= 1
        /\ Len(writes[k]) <= 1
        /\ \A n \in DOMAIN writes[k] : writes[k][n] \in claims[k]
        /\ \A w1, w2 \in Workers : (Holds(w1, k) /\ Holds(w2, k)) => w1 = w2
        /\ \A w \in Workers : Holds(w, k) => (w \in claims[k] /\ writes[k] = << >>)

\* after the joins: every worker has left its loop, every index was claimed
\* by exactly one worker, and every slot was assigned exactly once and holds
\* the result of its path
AllDoneAfterJoins ==
    mpc = "joined" =>
        /\ \A w \in Workers : wpc[w] = "exited"
        /\ \A k \in Indices : Cardinality(claims[k]) = 1 /\ Len(writes[k]) = 1
        /\ AllFilled

\* w is not one of the workers of the run, or it has left its loop
Exited(w) == w \in Workers => wpc[w] = "exited"

\* C30: for every number of workers and every interleaving, each index in
\* [0, imagePaths.size()) is claimed by exactly one worker through
\* nextIndex.fetch_add, results[idx] is assigned exactly once and never by
\* two threads, every worker eventually leaves its loop, and after the joins
\* every slot is filled
C30_EachIndexClaimedOnceAndAllSlotsFilled ==
    /\ [](ClaimedAndWrittenAtMostOnce /\ AllDoneAfterJoins)
    /\ \A w \in 1 .. MaxThreads : <>Exited(w)
    /\ <>(mpc = "joined")

\* the joins are over, two workers have each filled a slot, and one job
\* failed while another succeeded
C30_Witness ==
    /\ mpc = "joined"
    /\ \E k1, k2 \in Indices :
         /\ writes[k1] # writes[k2]
         /\ results[k1].ok /\ ~results[k2].ok

(***************************************************************************)
(* Specifications.                                                         *)
(***************************************************************************)
\* the accumulation pass alone
InitHash == HashInit /\ SDPIdle /\ EngineIdle /\ LTriDPIdle /\ WorkersIdle

SpecHash == InitHash /\ [][HashNext]_vars

\* the merge unit alone
InitSDP == HashIdle /\ SDPInit /\ EngineIdle /\ LTriDPIdle /\ WorkersIdle

SpecSDP == InitSDP /\ [][SDPNext]_vars

\* the duperization engine alone
InitEngine == HashIdle /\ SDPIdle /\ EngineInit /\ LTriDPIdle /\ WorkersIdle

SpecEngine == InitEngine /\ [][EngineNext]_vars

\* the LTriDP stages alone
InitLTriDP == HashIdle /\ SDPIdle /\ EngineIdle /\ LTriDPInit /\ WorkersIdle

SpecLTriDP == InitLTriDP /\ [][LTriDPNext]_vars

\* accumulation pass, then engine
InitPipeline == SDPIdle /\ PipelineInit /\ LTriDPIdle /\ WorkersIdle

SpecPipeline == InitPipeline /\ [][PipelineNext]_vars

\* the engine runs to its end: it is a loop, no step of which waits
FairSpecEngine == SpecEngine /\ WF_vars(EngineNext)

\* the descriptor stage alone
InitWorkers == HashIdle /\ SDPIdle /\ EngineIdle /\ LTriDPIdle /\ WorkersInit

SpecWorkers == InitWorkers /\ [][WorkersNext]_vars

\* every thread that can take a step is scheduled: the workers never wait,
\* and main waits only in join
FairSpecWorkers ==
    /\ SpecWorkers
    /\ \A w \in 1 .. MaxThreads : WF_vars(WorkerStep(w))
    /\ WF_vars(MainStep)
=============================================================================
